---- MODULE Spec2Model ----
(***************************************************************************)
(* A state-machine model of the multi-tenant API (vos_api_v5): the shared  *)
(* ("public") schema with the company registry and the user directory, one *)
(* schema per tenant with its user / role / permission tables, the JWT     *)
(* access and refresh tokens, and the HTTP handlers that act on them.      *)
(*                                                                         *)
(* Every handler is a pure operator from the current database state and    *)
(* the request's inputs to the SET of outcomes the code can produce (an    *)
(* unordered query ending in .first() returns any matching row); the       *)
(* action of the handler picks one outcome and installs it.                *)
(***************************************************************************)
EXTENDS Integers, Sequences, FiniteSets, TLC

VARIABLES
    company,           \* rows of public.company
    schemas,           \* names of the tenant schemas that exist
    tables,            \* <<schema, table>> pairs: the tables inside tenant schemas
    directory,         \* rows of public.user_directory
    users,             \* rows of every "user" table, each tagged with its schema
    roles,             \* rows of every "role" table, each tagged with its schema
    permissions,       \* rows of every "permission" table, tagged with its schema
    role_permissions,  \* rows of every "role_permissions" table, tagged
    now,               \* the wall clock, in ticks
    nextId,            \* the next fresh primary key (uuid4 never repeats)
    resp,              \* the response of the last request served
    requests           \* the /auth/refresh requests that passed the checks of the
                       \* handler: in flight ("checked") or answered

vars == <<company, schemas, tables, directory, users, roles, permissions,
          role_permissions, now, nextId, resp, requests>>

-----------------------------------------------------------------------------
(* Bounds of the model *)

MaxNow == 1
MaxId == 6

(* Program constants *)

\* timedelta(days=7) of create_refresh_token, in ticks
RefreshLifetime == 2
\* ACCESS_TOKEN_EXPIRE_MINUTES, in ticks (shorter than the refresh lifetime)
AccessLifetime == 1

DEFAULT_SCHEMA == "public"

\* UserRole: the coarse role values as stored in the enum (a subset of the five)
UserRole == {"admin", "manager", "staff"}

tenant_tables == {"user", "role", "permission", "role_permissions"}

\* "absent" for an optional integer (None, a missing claim, a NULL column)
None == 0

-----------------------------------------------------------------------------
(* Passwords: passlib's bcrypt context *)

\* what a plaintext would look like if it were stored as it is
Plain(password) == [alg |-> "plain", text |-> password]

get_password_hash_plaintext(password) == Plain(password)

get_password_hash(password) == [alg |-> "bcrypt", text |-> password]

verify_password(plain_password, hashed_password) ==
    /\ hashed_password.alg = "bcrypt"
    /\ hashed_password.text = plain_password

-----------------------------------------------------------------------------
(* Tokens: PyJWT claim sets signed with SECRET_KEY *)

NoToken == [kind |-> "none", sub |-> None, role |-> "", company_id |-> None,
            exp |-> 0, refresh |-> FALSE]

\* a string that is no JWT signed with the secret
Garbage == [kind |-> "garbage", sub |-> None, role |-> "", company_id |-> None,
            exp |-> 0, refresh |-> FALSE]

create_access_token(subject, role, company_id) ==
    [kind |-> "jwt", sub |-> subject, role |-> role, company_id |-> company_id,
     exp |-> now + AccessLifetime, refresh |-> FALSE]

create_refresh_token(subject, role, company_id) ==
    [kind |-> "jwt", sub |-> subject, role |-> role, company_id |-> company_id,
     exp |-> now + RefreshLifetime, refresh |-> TRUE]

\* jwt.decode succeeds: a signed claim set whose exp lies in the future
decode_ok(token) == token.kind = "jwt" /\ token.exp > now

-----------------------------------------------------------------------------
(* The database: search path and table resolution *)

HasTable(schema, table) ==
    schema = "public" \/ (schema \in schemas /\ <<schema, table>> \in tables)

\* the schema whose table an unqualified name resolves to: the first schema of
\* the search path that holds the table (a schema that does not exist is skipped)
RECURSIVE TableHome(_, _)
TableHome(path, table) ==
    IF path = <<>> THEN "none"
    ELSE IF HasTable(Head(path), table) THEN Head(path)
    ELSE TableHome(Tail(path), table)

TenantPath(schema_name) == <<schema_name, "public">>

UsersIn(path) == {u \in users : u.schema = TableHome(path, "user")}
RolesIn(path) == {r \in roles : r.schema = TableHome(path, "role")}
PermissionsIn(path) == {p \in permissions : p.schema = TableHome(path, "permission")}
RolePermissionsIn(path) ==
    {rp \in role_permissions : rp.schema = TableHome(path, "role_permissions")}

-----------------------------------------------------------------------------
(* Request paths, as sequences of segments under API_V1_STR *)

IsPrefix(p, s) == Len(p) <= Len(s) /\ SubSeq(s, 1, Len(p)) = p
IsSuffix(p, s) == Len(p) <= Len(s) /\ SubSeq(s, Len(s) - Len(p) + 1, Len(s)) = p

API_V1_STR == <<"api", "v1">>

PathLogin == API_V1_STR \o <<"auth", "login">>
PathLoginJson == API_V1_STR \o <<"auth", "login", "json">>
PathRefresh == API_V1_STR \o <<"auth", "refresh">>
PathLogout == API_V1_STR \o <<"auth", "logout">>
PathUsers == API_V1_STR \o <<"users">>
PathRoles == API_V1_STR \o <<"roles">>
PathPermissions == API_V1_STR \o <<"permissions">>
PathCompanies == API_V1_STR \o <<"companies">>

\* TenantMiddleware._should_skip_auth
should_skip_auth(path) ==
    \E skip \in {<<"docs">>, <<"redoc">>, <<"openapi.json">>,
                 API_V1_STR \o <<"auth", "login">>,
                 API_V1_STR \o <<"auth", "refresh">>,
                 API_V1_STR \o <<"health">>} : IsPrefix(skip, path)

\* request.state after TenantMiddleware.dispatch; bearer is the token of the
\* Authorization header (NoToken: the header is absent or not "Bearer ...")
Unset == [has_schema |-> FALSE, schema_name |-> "", company_id |-> None]

get_schema_for_company(company_id) ==
    IF \E c \in company : c.id = company_id
    THEN (CHOOSE c \in company : c.id = company_id).schema_name
    ELSE DEFAULT_SCHEMA

dispatch_any_token(path, bearer) ==
    IF should_skip_auth(path) THEN Unset
    ELSE IF bearer.kind = "none" THEN Unset
    ELSE IF bearer.kind # "jwt" \/ bearer.company_id = None THEN Unset
    ELSE [has_schema |-> TRUE,
          schema_name |-> get_schema_for_company(bearer.company_id),
          company_id |-> bearer.company_id]

dispatch(path, bearer) ==
    IF should_skip_auth(path) THEN Unset
    ELSE IF bearer.kind = "none" THEN Unset
    ELSE IF ~decode_ok(bearer) \/ bearer.company_id = None THEN Unset
    ELSE [has_schema |-> TRUE,
          schema_name |-> get_schema_for_company(bearer.company_id),
          company_id |-> bearer.company_id]

\* get_db: the search path of the session handed to the endpoint
get_db_state_first(path, state) ==
    IF state.has_schema THEN <<state.schema_name, "public">>
    ELSE <<DEFAULT_SCHEMA>>

get_db(path, state) ==
    IF \E tail \in {<<"login">>, <<"login", "json">>, <<"refresh">>} : IsSuffix(tail, path)
    THEN <<"public">>
    ELSE IF state.has_schema THEN <<state.schema_name, "public">>
    ELSE <<DEFAULT_SCHEMA>>

SessionPath(path, bearer) == get_db(path, dispatch(path, bearer))

-----------------------------------------------------------------------------
(* Users: the entity's own permission tests *)

NoUser == [schema |-> "none", id |-> None, email |-> "", username |-> "",
           hashed_password |-> Plain(""), role |-> "staff", role_id |-> None,
           is_active |-> FALSE, refresh_token |-> NoToken, company_id |-> None]

\* the permission codes attached to the user's Role (role_obj.permissions), as
\* the session with this search path loads them
RoleCodes(user, path) ==
    {p.code : p \in {q \in PermissionsIn(path) :
        \E rp \in RolePermissionsIn(path) :
            /\ rp.role_id = user.role_id
            /\ rp.permission_id = q.id
            /\ \E r \in RolesIn(path) : r.id = user.role_id}}

\* User.has_permission
has_permission_admin_only(user, path, permission_code) == user.role = "admin"

has_permission(user, path, permission_code) ==
    IF user.role = "admin" THEN TRUE
    ELSE permission_code \in RoleCodes(user, path)

\* User.get_permissions
get_permissions(user, path) ==
    IF user.role = "admin" THEN {"all"} ELSE RoleCodes(user, path)

-----------------------------------------------------------------------------
(* Authentication of a request: oauth2_scheme, get_current_user,             *)
(* get_current_active_user and check_user_permissions                        *)

AuthFail(status, detail) ==
    [ok |-> FALSE, status |-> status, detail |-> detail, missing |-> "", user |-> NoUser]

\* get_current_user, then get_current_active_user
get_current_user(path, bearer) ==
    LET sp == SessionPath(path, bearer)
        found == {u \in UsersIn(sp) : u.id = bearer.sub}
    IN  IF bearer.kind = "none" THEN AuthFail(401, "Not authenticated")
        ELSE IF ~decode_ok(bearer) THEN AuthFail(403, "Could not validate credentials")
        ELSE IF found = {} THEN AuthFail(404, "User not found")
        ELSE LET user == CHOOSE u \in found : TRUE
             IN  IF ~user.is_active THEN AuthFail(400, "Inactive user")
                 ELSE [ok |-> TRUE, status |-> 200, detail |-> "", missing |-> "", user |-> user]

\* check_user_permissions(required_permissions): required is the sequence of
\* codes; the first missing one is named
RECURSIVE FirstMissing(_, _, _)
FirstMissing(user, path, required) ==
    IF required = <<>> THEN ""
    ELSE IF ~has_permission(user, path, Head(required)) THEN Head(required)
    ELSE FirstMissing(user, path, Tail(required))

check_user_permissions(path, bearer, required) ==
    LET auth == get_current_user(path, bearer)
        sp == SessionPath(path, bearer)
    IN  IF ~auth.ok THEN auth
        ELSE IF auth.user.role = "admin" THEN auth
        ELSE IF FirstMissing(auth.user, sp, required) # ""
             THEN [AuthFail(403, "Not enough permissions. Missing") EXCEPT
                       !.missing = FirstMissing(auth.user, sp, required)]
        ELSE auth

-----------------------------------------------------------------------------
(* Responses *)

\* what the model keeps of the last response: the operation, the status, the
\* detail and the id of the user or row it was about
Response(op, status, detail, who) ==
    [op |-> op, status |-> status, detail |-> detail, who |-> who]

NoResponse == Response("none", 0, "", None)

\* a row of a set replaced by its updated version (UPDATE ... WHERE id = row.id)
Replace(rows, old, new) == (rows \ {old}) \cup {new}

-----------------------------------------------------------------------------
(* /auth: login, login/json, refresh, logout (api/v1/endpoints/auth.py)     *)

\* an outcome of an /auth handler: the response and the user rows afterwards
AuthOut(status, detail, access_token, refresh_token, who, users2) ==
    [status |-> status, detail |-> detail, access_token |-> access_token,
     refresh_token |-> refresh_token, who |-> who, users |-> users2]

AuthReject(status, detail) == AuthOut(status, detail, NoToken, NoToken, None, users)

\* the tail of the three token-issuing handlers: a token pair for the user, the
\* refresh token stored on the user's row, commit
issue_tokens(user) ==
    LET access_token == create_access_token(user.id, user.role, user.company_id)
        refresh_token == create_refresh_token(user.id, user.role, user.company_id)
    IN  AuthOut(200, "", access_token, refresh_token, user.id,
                Replace(users, user, [user EXCEPT !.refresh_token = refresh_token]))

\* the password and active checks shared by login and login_json
check_credentials(user, password) ==
    IF ~verify_password(password, user.hashed_password)
    THEN AuthReject(401, "Incorrect email or password")
    ELSE IF ~user.is_active THEN AuthReject(400, "Inactive user")
    ELSE issue_tokens(user)

\* POST /auth/login (form): the identifier is matched against email OR username,
\* in the directory and again in the tenant's user table, each time with .first()
login(username, password) ==
    LET dirs == {d \in directory : d.email = username \/ d.username = username}
    IN  IF dirs = {} THEN {AuthReject(401, "User not found")}
        ELSE UNION {
            LET found == {u \in UsersIn(TenantPath(user_dir.schema_name)) :
                             u.email = username \/ u.username = username}
            IN  IF found = {}
                \* print(user.hashed_password) on None: an unhandled AttributeError
                THEN {AuthReject(500, "Internal Server Error")}
                ELSE {check_credentials(user, password) : user \in found}
            : user_dir \in dirs}

\* POST /auth/login/json: the identifier is matched against email only
login_json(email, password) ==
    LET dirs == {d \in directory : d.email = email}
    IN  IF dirs = {} THEN {AuthReject(401, "User not found")}
        ELSE UNION {
            LET found == {u \in UsersIn(TenantPath(user_dir.schema_name)) : u.email = email}
            IN  \* SELECT * FROM {schema_name}.user needs the tenant's own table
                IF ~HasTable(user_dir.schema_name, "user")
                THEN {AuthReject(500, "Internal Server Error")}
                ELSE IF found = {} THEN {AuthReject(401, "Incorrect email or password")}
                ELSE {check_credentials(user, password) : user \in found}
            : user_dir \in dirs}

\* POST /auth/refresh, after the claims of the token were checked: the
\* directory entry of the company (.first()), the user row in its schema, the
\* comparison with the stored token
refresh_lookup(token) ==
    LET dirs == {d \in directory : d.company_id = token.company_id}
    IN  IF dirs = {} THEN {AuthReject(403, "Invalid company information in token")}
        ELSE UNION {
            LET found == {u \in UsersIn(TenantPath(user_dir.schema_name)) :
                             u.id = token.sub}
            IN  IF found = {} THEN {AuthReject(404, "User not found")}
                ELSE {IF user.refresh_token # token
                      THEN AuthOut(403, "Invalid refresh token", NoToken, NoToken,
                                   user.id, users)
                      ELSE issue_tokens(user) : user \in found}
            : user_dir \in dirs}

\* POST /auth/refresh
refresh_token_trusts_claims(token) ==
    IF ~decode_ok(token) THEN {AuthReject(403, "Invalid refresh token")}
    ELSE refresh_lookup(token)

refresh_token(token) ==
    IF ~decode_ok(token) THEN {AuthReject(403, "Invalid refresh token")}
    ELSE IF ~token.refresh THEN {AuthReject(403, "Invalid refresh token")}
    ELSE IF token.sub = None THEN {AuthReject(403, "Invalid refresh token")}
    ELSE IF token.company_id = None
         THEN {AuthReject(403, "Invalid refresh token - missing company_id")}
    ELSE refresh_lookup(token)

\* POST /auth/logout
logout_keeps_token(bearer) ==
    LET auth == get_current_user(PathLogout, bearer)
    IN  IF ~auth.ok THEN AuthReject(auth.status, auth.detail)
        ELSE AuthOut(200, "Successfully logged out", NoToken, NoToken, auth.user.id, users)

logout(bearer) ==
    LET auth == get_current_user(PathLogout, bearer)
    IN  IF ~auth.ok THEN AuthReject(auth.status, auth.detail)
        ELSE AuthOut(200, "Successfully logged out", NoToken, NoToken, auth.user.id,
                     Replace(users, auth.user, [auth.user EXCEPT !.refresh_token = NoToken]))

-----------------------------------------------------------------------------
(* /users: create (api/v1/endpoints/users.py, crud/user.py)                 *)

\* an outcome of a /users handler: the response, the directory and the user rows
UserOut(status, detail, who, directory2, users2) ==
    [status |-> status, detail |-> detail, who |-> who,
     directory |-> directory2, users |-> users2]

UserReject(status, detail) == UserOut(status, detail, None, directory, users)

\* UserCreate, as validated by the schema
UserCreate(email, username, password, role, role_id, is_active) ==
    [email |-> email, username |-> username, password |-> password,
     role |-> role, role_id |-> role_id, is_active |-> is_active]

\* the constraints of a "user" table: email and username unique, role_id NOT
\* NULL; the tables made by LIKE ... INCLUDING ALL carry no foreign key, the
\* template in the shared schema does (role_id references public.role)
UserInsertOk(row) ==
    /\ \A u \in users : u.schema = row.schema =>
           u.email # row.email /\ u.username # row.username
    /\ row.role_id # None
    /\ row.schema = "public" =>
           \E r \in roles : r.schema = "public" /\ r.id = row.role_id

\* the constraints of user_directory: email unique, username unique
DirectoryInsertOk(row) ==
    \A d \in directory : d.email # row.email /\ d.username # row.username

\* CRUDUser.create
crud_user_create(obj_in, company_id) ==
    LET found == {c \in company : c.id = company_id}
    IN  IF found = {} THEN UserReject(500, "Internal Server Error")
        ELSE
        LET c == CHOOSE c \in found : TRUE
            user_dir == [email |-> obj_in.email, username |-> obj_in.username,
                         company_id |-> company_id, schema_name |-> c.schema_name]
            db_obj == [schema |-> TableHome(TenantPath(c.schema_name), "user"),
                       id |-> nextId,
                       email |-> obj_in.email,
                       username |-> obj_in.username,
                       hashed_password |-> get_password_hash(obj_in.password),
                       role |-> obj_in.role,
                       role_id |-> obj_in.role_id,
                       is_active |-> obj_in.is_active,
                       refresh_token |-> NoToken,
                       company_id |-> company_id]
        IN  IF ~DirectoryInsertOk(user_dir) THEN UserReject(500, "Internal Server Error")
            \* the directory row is committed before the user row is inserted
            ELSE IF ~UserInsertOk(db_obj)
                 THEN UserOut(500, "Internal Server Error", None,
                              directory \cup {user_dir}, users)
            ELSE UserOut(201, "", db_obj.id, directory \cup {user_dir}, users \cup {db_obj})

\* CRUDUser.get_by_email with the session's search path
get_by_email(sp, email) == {u \in UsersIn(sp) : u.email = email}

\* CRUDUser.authenticate: the users it can return (none: the empty set)
authenticate(sp, email, password) ==
    {u \in get_by_email(sp, email) : verify_password(password, u.hashed_password)}

\* POST /users
create_user(bearer, user_in) ==
    LET auth == check_user_permissions(PathUsers, bearer, <<"users_create">>)
        sp == SessionPath(PathUsers, bearer)
    IN  IF ~auth.ok THEN UserReject(auth.status, auth.detail)
        ELSE IF get_by_email(sp, user_in.email) # {}
             THEN UserReject(400, "A user with this email already exists")
        ELSE crud_user_create(user_in, auth.user.company_id)

-----------------------------------------------------------------------------
(* The inputs the model draws requests from *)

\* email is an EmailStr, username any str: a username may be email-shaped
Emails == {"amy@x.io", "bob@x.io"}
Usernames == {"bob", "amy@x.io"}
Passwords == {"pw-one", "pw-two"}
Identifiers == Emails \cup Usernames \cup {"amy", "amy2@x.io", "root@acme.io", "nobody"}

\* role, role_id and is_active of the UserCreate payloads
Profiles ==
    {[role |-> "staff", role_id |-> 1, is_active |-> TRUE],
     [role |-> "admin", role_id |-> 1, is_active |-> TRUE],
     [role |-> "staff", role_id |-> None, is_active |-> TRUE],
     [role |-> "staff", role_id |-> 1, is_active |-> FALSE]}

\* the UserCreate payloads
Payloads ==
    {UserCreate(email, username, password, profile.role, profile.role_id,
                profile.is_active) :
        email \in Emails, username \in Usernames, password \in Passwords,
        profile \in Profiles}

\* the bearer tokens a client can send: a fresh access token of a user, a
\* stored refresh token, no token (no header, or one that is not "Bearer ..."),
\* something that is no JWT
Bearers ==
    {create_access_token(u.id, u.role, u.company_id) : u \in users}
    \cup {u.refresh_token : u \in users}
    \cup {Garbage, NoToken}
    \* an access token that has expired, and one issued without a company id
    \cup {[create_access_token(u.id, u.role, u.company_id) EXCEPT !.exp = now] : u \in users}
    \cup {create_access_token(u.id, u.role, None) : u \in users}

UnknownCompany == 9

\* the tokens signed with the secret that /auth/refresh can be handed: the
\* refresh token of a user as issued now, and that token with one claim changed
Tampered(t) ==
    {t,
     [t EXCEPT !.refresh = FALSE],
     [t EXCEPT !.sub = None],
     [t EXCEPT !.sub = nextId],
     [t EXCEPT !.company_id = None],
     [t EXCEPT !.company_id = UnknownCompany],
     [t EXCEPT !.company_id = 3 - t.company_id],
     [t EXCEPT !.exp = now],
     [t EXCEPT !.exp = now + 1]}

RefreshInputs ==
    {u.refresh_token : u \in users}
    \cup UNION {Tampered(create_refresh_token(u.id, u.role, u.company_id)) : u \in users}
    \cup {Garbage}

-----------------------------------------------------------------------------
(* The initial state: two companies provisioned by the operator, each with its *)
(* schema and tenant tables, a Manager role holding the user-management        *)
(* permissions and a staff user in the first, and one ADMIN user in each       *)

Acme == [id |-> 1, name |-> "Acme", slug |-> "acme",
         schema_name |-> "company_acme", is_active |-> TRUE]
Bistro == [id |-> 2, name |-> "Bistro", slug |-> "bistro",
           schema_name |-> "company_bistro", is_active |-> TRUE]

SeedUser(schema, id, email, username, password, role, role_id, company_id) ==
    [schema |-> schema, id |-> id, email |-> email, username |-> username,
     hashed_password |-> get_password_hash(password), role |-> role,
     role_id |-> role_id, is_active |-> TRUE, refresh_token |-> NoToken,
     company_id |-> company_id]

SeedDir(email, username, c) ==
    [email |-> email, username |-> username, company_id |-> c.id,
     schema_name |-> c.schema_name]

Init ==
    /\ company = {Acme, Bistro}
    /\ schemas = {"company_acme", "company_bistro"}
    /\ tables = {"company_acme", "company_bistro"} \X tenant_tables
    /\ roles = {[schema |-> "company_acme", id |-> 1, name |-> "Manager",
                 description |-> "", is_system_role |-> FALSE, company_id |-> 1]}
    /\ permissions = {[schema |-> "company_acme", id |-> 2, code |-> "users_create",
                       company_id |-> 1]}
    /\ role_permissions = {[schema |-> "company_acme", role_id |-> 1, permission_id |-> 2]}
    /\ directory = {SeedDir("root@acme.io", "root", Acme),
                    SeedDir("amy@x.io", "amy", Acme),
                    SeedDir("chef@bistro.io", "chef", Bistro)}
    /\ users = {SeedUser("company_acme", 3, "root@acme.io", "root", "pw-root", "admin", 1, 1),
                SeedUser("company_acme", 4, "amy@x.io", "amy", "pw-one", "staff", 1, 1),
                SeedUser("company_bistro", 5, "chef@bistro.io", "chef", "pw-chef", "admin", 1, 2)}
    /\ now = 0
    /\ nextId = 6
    /\ resp = NoResponse
    /\ requests = <<>>

-----------------------------------------------------------------------------
(* Actions *)

Install(op, out) ==
    /\ users' = out.users
    /\ resp' = Response(op, out.status, out.detail, out.who)
    /\ UNCHANGED <<company, schemas, tables, directory, roles, permissions,
                   role_permissions, now, nextId, requests>>

Login ==
    \E username \in Identifiers, password \in Passwords :
        \E out \in login(username, password) : Install("login", out)

LoginJson ==
    \E email \in Identifiers, password \in Passwords :
        \E out \in login_json(email, password) : Install("login_json", out)

Refresh ==
    \E token \in RefreshInputs :
        \E out \in refresh_token(token) : Install("refresh", out)

Logout ==
    \E bearer \in Bearers : Install("logout", logout(bearer))

\* time passes
Tick ==
    /\ now < MaxNow
    /\ now' = now + 1
    /\ UNCHANGED <<company, schemas, tables, directory, users, roles, permissions,
                   role_permissions, nextId, resp, requests>>

CreateUser ==
    /\ nextId <= MaxId
    /\ \E bearer \in Bearers, user_in \in Payloads :
          LET out == create_user(bearer, user_in)
          IN  /\ directory' = out.directory
              /\ users' = out.users
              /\ nextId' = IF out.status = 201 THEN nextId + 1 ELSE nextId
              /\ resp' = Response("create_user", out.status, out.detail, out.who)
              /\ UNCHANGED <<company, schemas, tables, roles, permissions,
                             role_permissions, now, requests>>

Next == Login \/ LoginJson \/ Refresh \/ Logout \/ Tick \/ CreateUser

Spec == Init /\ [][Next]_vars

-----------------------------------------------------------------------------
(* /companies (api/v1/endpoints/companies.py, crud/company.py, db/session.py) *)

\* the database as one value
Db ==
    [company |-> company, schemas |-> schemas, tables |-> tables,
     directory |-> directory, users |-> users, roles |-> roles,
     permissions |-> permissions, role_permissions |-> role_permissions]

\* an outcome of a handler: the response and the database afterwards
Out(status, detail, who, db) ==
    [status |-> status, detail |-> detail, who |-> who, db |-> db]

Reject(status, detail) == Out(status, detail, None, Db)

\* an absent (None) or empty str field: the code's tests take both as false
NoText == ""

\* python-slugify on the texts of the model: lower case, runs of other
\* characters become one hyphen
slugify(text) ==
    CASE text = "Acme" -> "acme"
      [] text = "ACME" -> "acme"
      [] text = "Bistro" -> "bistro"
      [] text = "Cafe Uno" -> "cafe-uno"
      [] text = "Renamed" -> "renamed"
      [] OTHER -> text

\* CRUDCompany.get_by_name, get_by_slug and the generic get
get_by_name(db, name) == {c \in db.company : c.name = name}
get_by_slug(db, slug) == {c \in db.company : c.slug = slug}
company_get(db, id) == {c \in db.company : c.id = id}

\* a company table without unique constraints
CompanyRowOk_unconstrained(rows, row) == TRUE

\* the constraints of the company table: slug unique, schema_name unique
CompanyRowOk(rows, row) ==
    \A c \in rows : c.id # row.id => (c.slug # row.slug /\ c.schema_name # row.schema_name)

\* create_schema: CREATE SCHEMA IF NOT EXISTS
create_schema(db, schema_name) ==
    [db EXCEPT !.schemas = @ \cup {schema_name}]

\* create_company_schema_tables: CREATE TABLE IF NOT EXISTS ... LIKE public
create_company_schema_tables(db, schema_name) ==
    [db EXCEPT !.tables = @ \cup ({schema_name} \X tenant_tables)]

\* drop_schema with CASCADE: the schema, its tables and their rows
drop_schema(db, schema_name) ==
    [db EXCEPT !.schemas = @ \ {schema_name},
               !.tables = {t \in @ : t[1] # schema_name},
               !.users = {r \in @ : r.schema # schema_name},
               !.roles = {r \in @ : r.schema # schema_name},
               !.permissions = {r \in @ : r.schema # schema_name},
               !.role_permissions = {r \in @ : r.schema # schema_name}]

\* the provisioning when neither statement can raise
Provisioned_always(db, schema_name) ==
    {create_company_schema_tables(create_schema(db, schema_name), schema_name)}

\* the ways the provisioning after the insert can end: both statements succeed,
\* create_schema raises, create_company_schema_tables raises and rolls back
Provisioned(db, schema_name) ==
    {create_company_schema_tables(create_schema(db, schema_name), schema_name),
     db,
     create_schema(db, schema_name)}

\* CRUDCompany.create: the outcomes it can have
crud_company_create(db, obj_in) ==
    LET slug == IF obj_in.slug # NoText THEN obj_in.slug ELSE slugify(obj_in.name)
        schema_name == IF obj_in.schema_name # NoText THEN obj_in.schema_name
                       ELSE "company_" \o slug
        db_obj == [id |-> nextId, name |-> obj_in.name, slug |-> slug,
                   schema_name |-> schema_name, is_active |-> obj_in.is_active]
    IN  IF ~CompanyRowOk(db.company, db_obj)
        THEN {Out(500, "Internal Server Error", None, db)}
        \* an exception of the provisioning is printed, the row stays
        ELSE {Out(200, "", db_obj.id, after) :
                 after \in Provisioned([db EXCEPT !.company = @ \cup {db_obj}], schema_name)}

\* CRUDCompany.update: "Schema name cannot be updated for existing companies"
keep_schema_name(update_data) == update_data

strip_schema_name(update_data) ==
    [f \in DOMAIN update_data \ {"schema_name"} |-> update_data[f]]

\* CRUDCompany.update: a supplied slug is slugified
slugify_slug(update_data) ==
    [f \in DOMAIN update_data |->
        IF f = "slug" /\ update_data[f] # NoText THEN slugify(update_data[f])
        ELSE update_data[f]]

\* the generic update: only the fields present in the payload are applied
base_update(db_obj, update_data) ==
    [f \in DOMAIN db_obj |->
        IF f \in DOMAIN update_data THEN update_data[f] ELSE db_obj[f]]

crud_company_update(db, db_obj, obj_in) ==
    LET row == base_update(db_obj, strip_schema_name(slugify_slug(obj_in)))
    IN  IF ~CompanyRowOk(db.company, row)
        THEN Out(500, "Internal Server Error", None, db)
        ELSE Out(200, "", row.id, [db EXCEPT !.company = Replace(@, db_obj, row)])

\* the rows of the shared schema's own tenant tables that refer to the company
PublicRows(rows, id) == {r \in rows : r.schema = "public" /\ r.company_id = id}

\* the DELETE of the company row is refused by the database: Company.users has
\* no delete cascade, so the session first sets company_id of the company's rows
\* of public.user to NULL (NOT NULL); role_permissions refers to role and
\* permission without ON DELETE CASCADE
RemoveRefused(db, id) ==
    \/ PublicRows(db.users, id) # {}
    \/ \E rp \in db.role_permissions :
           /\ rp.schema = "public"
           /\ \/ \E r \in PublicRows(db.roles, id) : r.id = rp.role_id
              \/ \E q \in PublicRows(db.permissions, id) : q.id = rp.permission_id

\* the registry row goes, and with it the rows of the shared schema whose
\* foreign key on company.id is ON DELETE CASCADE; no schema is dropped
RemoveRow(db, id) ==
    [db EXCEPT !.company = {c \in @ : c.id # id},
               !.directory = {d \in @ : d.company_id # id},
               !.roles = @ \ PublicRows(@, id),
               !.permissions = @ \ PublicRows(@, id)]

\* CRUDCompany.remove
crud_company_remove_with_schema(db, id) ==
    IF company_get(db, id) = {} THEN Out(200, "", None, db)
    ELSE IF RemoveRefused(db, id) THEN Out(500, "Internal Server Error", None, db)
    ELSE Out(200, "", id,
             drop_schema(RemoveRow(db, id),
                         (CHOOSE c \in company_get(db, id) : TRUE).schema_name))

crud_company_remove(db, id) ==
    IF company_get(db, id) = {} THEN Out(200, "", None, db)
    ELSE IF RemoveRefused(db, id) THEN Out(500, "Internal Server Error", None, db)
    ELSE Out(200, "", id, RemoveRow(db, id))

\* role_obj.permissions is a list of Permission rows: never equal to a str
PermissionsEqual(role_permission_rows, text) == FALSE

\* check_superuser_permissions: TRUE when the 403 is raised. The coarse role is
\* a UserRole member, whose values are lower case, compared with "ADMIN"
check_superuser_permissions(current_user, path) ==
    /\ current_user.role # "ADMIN"
    /\ \/ ~(\E r \in RolesIn(path) : r.id = current_user.role_id)
       \/ ~PermissionsEqual({rp \in RolePermissionsIn(path) :
                                rp.role_id = current_user.role_id}, "all")

\* the two checks every /companies handler starts with; "" when both pass
company_guard(bearer) ==
    LET auth == get_current_user(PathCompanies, bearer)
    IN  IF ~auth.ok THEN Reject(auth.status, auth.detail)
        ELSE IF check_superuser_permissions(auth.user, SessionPath(PathCompanies, bearer))
             THEN Reject(403, "Superuser privileges required for company management")
        ELSE Out(0, "", auth.user.id, Db)

\* GET /companies
get_companies(bearer, active_only) ==
    LET g == company_guard(bearer)
    IN  IF g.status # 0 THEN g ELSE Out(200, "", None, Db)

\* POST /companies
create_company(bearer, company_in) ==
    LET g == company_guard(bearer)
    IN  IF g.status # 0 THEN {g}
        ELSE IF get_by_name(Db, company_in.name) # {}
             THEN {Reject(400, "A company with this name already exists")}
        ELSE IF company_in.slug # NoText /\ get_by_slug(Db, company_in.slug) # {}
             THEN {Reject(400, "A company with this slug already exists")}
        ELSE crud_company_create(Db, company_in)

\* GET /companies/{company_id}
get_company(bearer, company_id) ==
    LET g == company_guard(bearer)
    IN  IF g.status # 0 THEN g
        ELSE IF company_get(Db, company_id) = {} THEN Reject(404, "Company not found")
        ELSE Out(200, "", company_id, Db)

\* PUT /companies/{company_id}: CompanyUpdate has neither schema_name nor slug,
\* so the read of company_in.slug raises AttributeError
update_company(bearer, company_id, company_in) ==
    LET g == company_guard(bearer)
    IN  IF g.status # 0 THEN g
        ELSE IF company_get(Db, company_id) = {} THEN Reject(404, "Company not found")
        ELSE IF "slug" \notin DOMAIN company_in THEN Reject(500, "Internal Server Error")
        ELSE crud_company_update(Db, CHOOSE c \in company_get(Db, company_id) : TRUE,
                                 company_in)

\* DELETE /companies/{company_id}
delete_company(bearer, company_id) ==
    LET g == company_guard(bearer)
    IN  IF g.status # 0 THEN g
        ELSE IF company_get(Db, company_id) = {} THEN Reject(404, "Company not found")
        ELSE crud_company_remove(Db, company_id)

\* POST /companies/{company_id}/drop-schema
drop_company_schema(bearer, company_id, confirm) ==
    LET g == company_guard(bearer)
    IN  IF g.status # 0 THEN g
        ELSE IF ~confirm
             THEN Reject(400, "Confirmation required for schema deletion")
        ELSE IF company_get(Db, company_id) = {} THEN Reject(404, "Company not found")
        ELSE Out(200, "dropped", company_id,
                 drop_schema(Db, (CHOOSE c \in company_get(Db, company_id) : TRUE).schema_name))

-----------------------------------------------------------------------------
(* The schema-management script (db/scripts/manage_schemas.py) *)

\* get_all_database_schemas: every schema but the catalog, toast and temp ones
get_all_database_schemas(db) == db.schemas \cup {"public"}

\* the loop over the orphaned schemas: drop_schema(schema, cascade=True) each
RECURSIVE drop_schemas(_, _)
drop_schemas(db, orphaned_schemas) ==
    IF orphaned_schemas = {} THEN db
    ELSE LET schema == CHOOSE x \in orphaned_schemas : TRUE
         IN  drop_schemas(drop_schema(db, schema), orphaned_schemas \ {schema})

\* the cleanup without the test of dry_run and without the preserved schemas
cleanup_orphaned_schemas_always(db, dry_run) ==
    LET orphaned_schemas ==
            {schema \in get_all_database_schemas(db) :
                schema \notin {c.schema_name : c \in db.company}}
    IN  Out(0, "dropped", Cardinality(orphaned_schemas),
            drop_schemas(db, orphaned_schemas))

\* cleanup_orphaned_schemas; who is the number of orphaned schemas found
cleanup_orphaned_schemas(db, dry_run) ==
    LET company_schemas == {c.schema_name : c \in db.company}
        preserved_schemas == {"public"}
        orphaned_schemas ==
            {schema \in get_all_database_schemas(db) :
                schema \notin company_schemas /\ schema \notin preserved_schemas}
    IN  IF dry_run THEN Out(0, "would drop", Cardinality(orphaned_schemas), db)
        ELSE Out(0, "dropped", Cardinality(orphaned_schemas),
                 drop_schemas(db, orphaned_schemas))

\* main, for the flags --cleanup and --dry-run
main(db, cleanup, dry_run) ==
    IF cleanup THEN cleanup_orphaned_schemas(db, dry_run)
    ELSE Out(0, "No action specified", None, db)

-----------------------------------------------------------------------------
(* The company requests of the model *)

CompanyNames == {"Acme", "ACME", "Cafe Uno"}

\* CompanyCreate payloads
CompanyCreate(name, slug, schema_name) ==
    [name |-> name, slug |-> slug, schema_name |-> schema_name, is_active |-> TRUE]

\* the kinds of character in the schema names of the model
CharClasses(text) ==
    CASE text \in {"company_acme", "company_bistro", "company_cafe", "company_renamed",
                   "tenant_x"} -> {"lower", "underscore"}
      [] text = "company_cafe-uno" -> {"lower", "underscore", "hyphen"}
      [] text = "Tenant-X" -> {"lower", "upper", "hyphen"}
      [] OTHER -> {"other"}

\* len() of the schema names of the model
TextLen(text) ==
    CASE text = "company_acme" -> 12
      [] text = "company_bistro" -> 14
      [] text = "company_cafe" -> 12
      [] text = "company_renamed" -> 15
      [] text = "company_cafe-uno" -> 16
      [] OTHER -> 8

\* CompanyBase.validate_schema_name: TRUE when the value is accepted. islower()
\* asks for a cased character and no upper-case one
validate_schema_name(v) ==
    \/ v = NoText
    \/ /\ "lower" \in CharClasses(v) /\ "upper" \notin CharClasses(v)
       /\ CharClasses(v) \subseteq {"lower", "digit", "underscore"}
       /\ TextLen(v) <= 63

\* the bodies a client can send
CompanyBodies ==
    {CompanyCreate(name, NoText, NoText) : name \in CompanyNames}
    \cup {CompanyCreate("ACME", "cafe", NoText),
          CompanyCreate("Cafe Uno", NoText, "tenant_x"),
          CompanyCreate("Cafe Uno", NoText, "Tenant-X")}

\* the CompanyCreate objects: the bodies its validator accepts
CompanyCreates == {obj_in \in CompanyBodies : validate_schema_name(obj_in.schema_name)}

\* CompanyUpdate payloads, as obj_in.dict(exclude_unset=True)
CompanyUpdates ==
    {[name |-> "Renamed"], [is_active |-> FALSE]}

\* the update data a caller of CRUDCompany.update can pass as a dict
CompanyUpdateDicts ==
    {[name |-> "Renamed", schema_name |-> "tenant_x"],
     [slug |-> "Cafe Uno"]}

CompanyIds == {c.id : c \in company} \cup {UnknownCompany}

\* the state after a handler, and the response it gave
InstallDb(op, out) ==
    /\ company' = out.db.company
    /\ schemas' = out.db.schemas
    /\ tables' = out.db.tables
    /\ directory' = out.db.directory
    /\ users' = out.db.users
    /\ roles' = out.db.roles
    /\ permissions' = out.db.permissions
    /\ role_permissions' = out.db.role_permissions
    /\ resp' = Response(op, out.status, out.detail, out.who)
    /\ UNCHANGED requests

GetCompanies ==
    \E bearer \in Bearers, active_only \in BOOLEAN :
        /\ InstallDb("get_companies", get_companies(bearer, active_only))
        /\ UNCHANGED <<now, nextId>>

CreateCompany ==
    /\ nextId <= MaxId
    /\ \E bearer \in Bearers, company_in \in CompanyCreates :
          \E out \in create_company(bearer, company_in) :
              /\ InstallDb("create_company", out)
              /\ nextId' = IF out.status = 200 THEN nextId + 1 ELSE nextId
              /\ UNCHANGED now

GetCompany ==
    \E bearer \in Bearers, company_id \in CompanyIds :
        /\ InstallDb("get_company", get_company(bearer, company_id))
        /\ UNCHANGED <<now, nextId>>

UpdateCompany ==
    \E bearer \in Bearers, company_id \in CompanyIds, company_in \in CompanyUpdates :
        /\ InstallDb("update_company", update_company(bearer, company_id, company_in))
        /\ UNCHANGED <<now, nextId>>

DeleteCompany ==
    \E bearer \in Bearers, company_id \in CompanyIds :
        /\ InstallDb("delete_company", delete_company(bearer, company_id))
        /\ UNCHANGED <<now, nextId>>

DropCompanySchema ==
    \E bearer \in Bearers, company_id \in CompanyIds, confirm \in BOOLEAN :
        /\ InstallDb("drop_company_schema", drop_company_schema(bearer, company_id, confirm))
        /\ UNCHANGED <<now, nextId>>

\* CRUDCompany called outside a request (the interpreter, a seeding script):
\* the way the companies of the registry come to exist
CrudCompanyCreate ==
    /\ nextId <= MaxId
    /\ \E obj_in \in CompanyCreates :
          \E out \in crud_company_create(Db, obj_in) :
              /\ InstallDb("crud_company_create", out)
              /\ nextId' = IF out.status = 200 THEN nextId + 1 ELSE nextId
              /\ UNCHANGED now

CrudCompanyUpdate ==
    \E db_obj \in company, obj_in \in CompanyUpdateDicts :
        /\ InstallDb("crud_company_update", crud_company_update(Db, db_obj, obj_in))
        /\ UNCHANGED <<now, nextId>>

CrudCompanyRemove ==
    \E id \in CompanyIds :
        /\ InstallDb("crud_company_remove", crud_company_remove(Db, id))
        /\ UNCHANGED <<now, nextId>>

\* the operator runs the script
ManageSchemas ==
    \E cleanup \in BOOLEAN, dry_run \in BOOLEAN :
        /\ InstallDb("manage_schemas", main(Db, cleanup, dry_run))
        /\ UNCHANGED <<now, nextId>>

CompanyNext ==
    \/ ManageSchemas
    \/ GetCompanies
    \/ CreateCompany
    \/ GetCompany
    \/ UpdateCompany
    \/ DeleteCompany
    \/ DropCompanySchema
    \/ CrudCompanyCreate
    \/ CrudCompanyUpdate
    \/ CrudCompanyRemove

\* one company provisioned by the operator, with an ADMIN and a staff user
CompanyInit ==
    /\ company = {Acme}
    /\ schemas = {"company_acme"}
    /\ tables = {"company_acme"} \X tenant_tables
    /\ roles = {[schema |-> "company_acme", id |-> 1, name |-> "Manager",
                 description |-> "", is_system_role |-> FALSE, company_id |-> 1]}
    /\ permissions = {[schema |-> "company_acme", id |-> 2, code |-> "users_create",
                       company_id |-> 1]}
    /\ role_permissions = {[schema |-> "company_acme", role_id |-> 1, permission_id |-> 2]}
    /\ directory = {SeedDir("root@acme.io", "root", Acme),
                    SeedDir("amy@x.io", "amy", Acme)}
    /\ users = {SeedUser("company_acme", 3, "root@acme.io", "root", "pw-root", "admin", 1, 1),
                SeedUser("company_acme", 4, "amy@x.io", "amy", "pw-one", "staff", 1, 1)}
    /\ now = 0
    /\ nextId = 6
    /\ resp = NoResponse
    /\ requests = <<>>

CompanySpec == CompanyInit /\ [][CompanyNext]_vars

-----------------------------------------------------------------------------
(* /roles and /permissions (api/v1/endpoints/roles.py, permissions.py,       *)
(* crud/role.py, crud/permission.py)                                          *)

\* a field of a payload built with exclude_unset, NoText when it is not set
Field(payload, f) == IF f \in DOMAIN payload THEN payload[f] ELSE NoText

\* the generic get of roles and permissions with the session's search path
role_get(sp, id) == {r \in RolesIn(sp) : r.id = id}
permission_get(sp, id) == {q \in PermissionsIn(sp) : q.id = id}

\* CRUDRole.get_by_name, CRUDPermission.get_by_code
role_get_by_name(sp, name, company_id) ==
    {r \in RolesIn(sp) : r.name = name /\ r.company_id = company_id}

get_by_code(sp, code, company_id) ==
    {q \in PermissionsIn(sp) : q.code = code /\ q.company_id = company_id}

\* the relationships Role.users, Role.permissions and the backref Permission.roles
role_users(sp, role) == {u \in UsersIn(sp) : u.role_id = role.id}

role_permission_ids(sp, role) ==
    {rp.permission_id : rp \in {x \in RolePermissionsIn(sp) : x.role_id = role.id}}

permission_roles_none(sp, permission) == {}

permission_roles(sp, permission) ==
    {r \in RolesIn(sp) : permission.id \in role_permission_ids(sp, r)}

\* the query of create and update_permissions: the ids that exist and belong
\* to the company
permissions_of_any_company(sp, ids, company_id) ==
    {q.id : q \in {x \in PermissionsIn(sp) : x.id \in ids}}

permissions_of_company(sp, ids, company_id) ==
    {q.id : q \in {x \in PermissionsIn(sp) : x.id \in ids /\ x.company_id = company_id}}

\* the rows of the association table when the role has these permissions
WithPermissions(db, sp, role, ids) ==
    [db EXCEPT !.role_permissions =
        {rp \in @ : ~(rp.schema = TableHome(sp, "role_permissions") /\ rp.role_id = role.id)}
        \cup {[schema |-> TableHome(sp, "role_permissions"), role_id |-> role.id,
               permission_id |-> i] : i \in ids}]

\* CRUDRole.create
crud_role_create(db, sp, obj_in, company_id) ==
    LET db_obj == [schema |-> TableHome(sp, "role"), id |-> nextId, name |-> obj_in.name,
                   description |-> obj_in.description,
                   is_system_role |-> obj_in.is_system_role, company_id |-> company_id]
        inserted == [db EXCEPT !.roles = @ \cup {db_obj}]
    IN  IF obj_in.permission_ids = {} THEN Out(201, "", db_obj.id, inserted)
        ELSE Out(201, "", db_obj.id,
                 WithPermissions(inserted, sp, db_obj,
                     permissions_of_company(sp, obj_in.permission_ids, company_id)))

\* CRUDRole.update; a ValueError becomes the 400 of the endpoint
crud_role_update(db, sp, db_obj, obj_in) ==
    IF db_obj.is_system_role THEN Out(400, "System roles cannot be modified", None, db)
    ELSE Out(200, "", db_obj.id,
             [db EXCEPT !.roles = Replace(@, db_obj, base_update(db_obj, obj_in))])

\* CRUDRole.update_permissions
crud_role_update_permissions(db, sp, db_obj, add_ids, remove_ids) ==
    IF db_obj.is_system_role THEN Out(400, "System roles cannot be modified", None, db)
    ELSE LET added == role_permission_ids(sp, db_obj)
                      \cup permissions_of_company(sp, add_ids, db_obj.company_id)
             kept == added \ permissions_of_company(sp, remove_ids, db_obj.company_id)
         IN  Out(200, "", db_obj.id, WithPermissions(db, sp, db_obj, kept))

\* the generic remove of a role: the row and its rows of the association table
base_remove_role(db, sp, role) ==
    [WithPermissions(db, sp, role, {}) EXCEPT !.roles = @ \ {role}]

\* CRUDRole.remove
crud_role_remove_any(db, sp, id) ==
    IF role_get(sp, id) = {} THEN Out(200, "", None, db)
    ELSE Out(200, "", id, base_remove_role(db, sp, CHOOSE r \in role_get(sp, id) : TRUE))

crud_role_remove(db, sp, id) ==
    IF role_get(sp, id) = {} THEN Out(200, "", None, db)
    ELSE LET role == CHOOSE r \in role_get(sp, id) : TRUE
         IN  IF role.is_system_role
             THEN Out(400, "System roles cannot be deleted", None, db)
             ELSE Out(200, "", id, base_remove_role(db, sp, role))

\* POST /roles
create_role(bearer, role_in) ==
    LET auth == check_user_permissions(PathRoles, bearer, <<"roles_create">>)
        sp == SessionPath(PathRoles, bearer)
    IN  IF ~auth.ok THEN Reject(auth.status, auth.detail)
        ELSE IF role_get_by_name(sp, role_in.name, auth.user.company_id) # {}
             THEN Reject(400, "A role with this name already exists")
        ELSE crud_role_create(Db, sp, role_in, auth.user.company_id)

\* the head of the handlers on /roles/{role_id}: the permission, the role, its
\* company; status 0 when the handler goes on
role_target(bearer, required, role_id) ==
    LET auth == check_user_permissions(PathRoles, bearer, <<required>>)
        found == role_get(SessionPath(PathRoles, bearer), role_id)
    IN  IF ~auth.ok THEN Reject(auth.status, auth.detail)
        ELSE IF found = {} THEN Reject(404, "Role not found")
        ELSE IF (CHOOSE r \in found : TRUE).company_id # auth.user.company_id
             THEN Reject(403, "Access denied")
        ELSE Out(0, "", auth.user.id, Db)

\* PUT /roles/{role_id}
update_role(bearer, role_id, role_in) ==
    LET head == role_target(bearer, "roles_update", role_id)
        sp == SessionPath(PathRoles, bearer)
        role == CHOOSE r \in role_get(sp, role_id) : TRUE
    IN  IF head.status # 0 THEN head
        ELSE IF role.is_system_role THEN Reject(400, "System roles cannot be modified")
        ELSE IF /\ Field(role_in, "name") # NoText
                /\ Field(role_in, "name") # role.name
                /\ role_get_by_name(sp, role_in.name, role.company_id) # {}
             THEN Reject(400, "A role with this name already exists")
        ELSE crud_role_update(Db, sp, role, role_in)

\* PUT /roles/{role_id}/permissions
update_role_permissions(bearer, role_id, add_ids, remove_ids) ==
    LET head == role_target(bearer, "roles_manage_permissions", role_id)
        sp == SessionPath(PathRoles, bearer)
        role == CHOOSE r \in role_get(sp, role_id) : TRUE
    IN  IF head.status # 0 THEN head
        ELSE IF role.is_system_role THEN Reject(400, "System roles cannot be modified")
        ELSE crud_role_update_permissions(Db, sp, role, add_ids, remove_ids)

\* DELETE /roles/{role_id}
delete_role(bearer, role_id) ==
    LET head == role_target(bearer, "roles_delete", role_id)
        sp == SessionPath(PathRoles, bearer)
        role == CHOOSE r \in role_get(sp, role_id) : TRUE
    IN  IF head.status # 0 THEN head
        ELSE IF role_users(sp, role) # {}
             THEN Reject(400, "Cannot delete a role that is assigned to users")
        ELSE crud_role_remove(Db, sp, role_id)

\* CRUDPermission.create; a ValueError becomes the 400 of the endpoint
crud_permission_create(db, sp, obj_in, company_id) ==
    IF get_by_code(sp, obj_in.code, company_id) # {}
    THEN Out(400, "Permission with this code already exists for this company", None, db)
    ELSE Out(201, "", nextId,
             [db EXCEPT !.permissions = @ \cup
                 {[schema |-> TableHome(sp, "permission"), id |-> nextId,
                   code |-> obj_in.code, company_id |-> company_id]}])

\* POST /permissions
create_permission(bearer, permission_in) ==
    LET auth == check_user_permissions(PathPermissions, bearer, <<"permissions_create">>)
        sp == SessionPath(PathPermissions, bearer)
    IN  IF ~auth.ok THEN Reject(auth.status, auth.detail)
        ELSE IF get_by_code(sp, permission_in.code, auth.user.company_id) # {}
             THEN Reject(400, "Permission with this code already exists")
        ELSE crud_permission_create(Db, sp, permission_in, auth.user.company_id)

\* DELETE /permissions/{permission_id}
delete_permission(bearer, permission_id) ==
    LET auth == check_user_permissions(PathPermissions, bearer, <<"permissions_delete">>)
        sp == SessionPath(PathPermissions, bearer)
        found == permission_get(sp, permission_id)
        permission == CHOOSE q \in found : TRUE
    IN  IF ~auth.ok THEN Reject(auth.status, auth.detail)
        ELSE IF found = {} THEN Reject(404, "Permission not found")
        ELSE IF permission.company_id # auth.user.company_id
             THEN Reject(403, "Access denied")
        ELSE IF permission_roles(sp, permission) # {}
             THEN Reject(400, "Cannot delete a permission that is assigned to roles")
        ELSE Out(200, "", permission_id, [Db EXCEPT !.permissions = @ \ {permission}])

-----------------------------------------------------------------------------
(* The role and permission requests of the model *)

UnknownId == 9

RoleIds == {r.id : r \in roles} \cup {UnknownId}
PermissionIds == {q.id : q \in permissions} \cup {UnknownId}

\* the id lists of RoleCreate and RolePermissionsUpdate
IdLists == {{}, PermissionIds} \cup {{q.id} : q \in permissions}

RoleCreates ==
    [name : {"Manager", "Auditor"}, description : {""}, is_system_role : BOOLEAN,
     permission_ids : {{}, PermissionIds}]

\* RoleUpdate payloads, as obj_in.dict(exclude_unset=True)
RoleUpdates == {[name |-> "Auditor"]}

PermissionCreates == [code : {"roles_delete", "roles_manage_permissions"}]

CreateRole ==
    /\ nextId <= MaxId
    /\ \E bearer \in Bearers, role_in \in RoleCreates :
          \E out \in {create_role(bearer, role_in)} :
              /\ InstallDb("create_role", out)
              /\ nextId' = IF out.status = 201 THEN nextId + 1 ELSE nextId
              /\ UNCHANGED now

UpdateRole ==
    \E bearer \in Bearers, role_id \in RoleIds, role_in \in RoleUpdates :
        /\ InstallDb("update_role", update_role(bearer, role_id, role_in))
        /\ UNCHANGED <<now, nextId>>

UpdateRolePermissions ==
    \E bearer \in Bearers, role_id \in RoleIds, add_ids \in IdLists, remove_ids \in IdLists :
        /\ InstallDb("update_role_permissions",
                     update_role_permissions(bearer, role_id, add_ids, remove_ids))
        /\ UNCHANGED <<now, nextId>>

DeleteRole ==
    \E bearer \in Bearers, role_id \in RoleIds :
        /\ InstallDb("delete_role", delete_role(bearer, role_id))
        /\ UNCHANGED <<now, nextId>>

CreatePermission ==
    /\ nextId <= MaxId
    /\ \E bearer \in Bearers, permission_in \in PermissionCreates :
          \E out \in {create_permission(bearer, permission_in)} :
              /\ InstallDb("create_permission", out)
              /\ nextId' = IF out.status = 201 THEN nextId + 1 ELSE nextId
              /\ UNCHANGED now

DeletePermission ==
    \E bearer \in Bearers, permission_id \in PermissionIds :
        /\ InstallDb("delete_permission", delete_permission(bearer, permission_id))
        /\ UNCHANGED <<now, nextId>>

RoleNext ==
    \/ CreateRole
    \/ UpdateRole
    \/ UpdateRolePermissions
    \/ DeleteRole
    \/ CreatePermission
    \/ DeletePermission

\* two companies whose provisioning failed (the row stays, no schema exists):
\* their rows share the tables of the shared schema; the users of the first
\* are the callers. Ids are per table.
RoleInit ==
    /\ company = {Acme, Bistro}
    /\ schemas = {}
    /\ tables = {}
    /\ roles = {[schema |-> "public", id |-> 1, name |-> "Manager", description |-> "",
                 is_system_role |-> FALSE, company_id |-> 1],
                [schema |-> "public", id |-> 2, name |-> "Cook", description |-> "",
                 is_system_role |-> FALSE, company_id |-> 2]}
    /\ permissions = {[schema |-> "public", id |-> 3, code |-> "roles_manage_permissions",
                       company_id |-> 1],
                      [schema |-> "public", id |-> 4, code |-> "roles_delete",
                       company_id |-> 2]}
    /\ role_permissions = {[schema |-> "public", role_id |-> 1, permission_id |-> 3]}
    /\ directory = {SeedDir("root@acme.io", "root", Acme),
                    SeedDir("amy@x.io", "amy", Acme)}
    /\ users = {SeedUser("public", 1, "root@acme.io", "root", "pw-root", "admin", 1, 1),
                SeedUser("public", 2, "amy@x.io", "amy", "pw-one", "staff", 1, 1)}
    /\ now = 0
    /\ nextId = 6
    /\ resp = NoResponse
    /\ requests = <<>>

RoleSpec == RoleInit /\ [][RoleNext]_vars

-----------------------------------------------------------------------------
(* POST /permissions/initialize (api/v1/endpoints/permissions.py,            *)
(* core/permissions.py, crud/permission.py)                                   *)

\* PermissionRegistry.get_permission_definitions: the codes the endpoint
\* modules register when they are imported, in the order of the router's
\* imports (users, roles, permissions)
get_permission_definitions ==
    <<"users_create", "users_read", "users_update", "users_delete",
      "users_manage_permissions",
      "roles_create", "roles_read", "roles_update", "roles_delete",
      "roles_manage_permissions",
      "permissions_create", "permissions_read", "permissions_update",
      "permissions_delete">>

\* CRUDPermission.create_multi: the codes of the list it makes rows for. The
\* session does not autoflush, so each get_by_code sees the committed rows
RECURSIVE created_permissions_all(_, _, _)
created_permissions_all(sp, permissions_list, company_id) ==
    IF permissions_list = <<>> THEN <<>>
    ELSE <<Head(permissions_list)>>
         \o created_permissions_all(sp, Tail(permissions_list), company_id)

RECURSIVE created_permissions(_, _, _)
created_permissions(sp, permissions_list, company_id) ==
    IF permissions_list = <<>> THEN <<>>
    ELSE IF get_by_code(sp, Head(permissions_list), company_id) # {}
         THEN created_permissions(sp, Tail(permissions_list), company_id)
    ELSE <<Head(permissions_list)>>
         \o created_permissions(sp, Tail(permissions_list), company_id)

\* the message of the answer; created_count is the same number
initialized(created_count) ==
    "Successfully initialized " \o ToString(created_count) \o " permissions"

\* CRUDPermission.create_multi: one commit for the rows of the codes kept
create_multi(db, sp, permissions_list, company_id) ==
    LET codes == created_permissions(sp, permissions_list, company_id)
    IN  Out(200, initialized(Len(codes)), None,
            [db EXCEPT !.permissions = @ \cup
                {[schema |-> TableHome(sp, "permission"), id |-> nextId + i - 1,
                  code |-> codes[i], company_id |-> company_id] : i \in 1..Len(codes)}])

\* POST /permissions/initialize; who is the caller
initialize_permissions(bearer) ==
    LET auth == check_user_permissions(PathPermissions, bearer, <<"permissions_create">>)
        sp == SessionPath(PathPermissions, bearer)
    IN  IF ~auth.ok THEN Reject(auth.status, auth.detail)
        ELSE [create_multi(Db, sp, get_permission_definitions, auth.user.company_id)
                 EXCEPT !.who = auth.user.id]

\* fresh ids are drawn up to the bound; a call that creates no row draws none
InitializePermissions ==
    \E bearer \in Bearers :
        \E out \in {initialize_permissions(bearer)} :
              /\ out.db.permissions # permissions => nextId <= MaxId
              /\ InstallDb("initialize_permissions", out)
              /\ nextId' = nextId + Cardinality(out.db.permissions \ permissions)
              /\ UNCHANGED now

PermissionNext == InitializePermissions \/ CreatePermission

\* a third company, created with the name "Cafe Uno"
Cafe == [id |-> 3, name |-> "Cafe Uno", slug |-> "cafe-uno",
         schema_name |-> "company_cafe-uno", is_active |-> TRUE]

\* the first company is provisioned, the provisioning of the other two failed
\* (their rows share the tables of the shared schema); the Clerk role of the
\* first holds the code to create permissions. Ids are per table.
PermissionInit ==
    /\ company = {Acme, Bistro, Cafe}
    /\ schemas = {"company_acme"}
    /\ tables = {"company_acme"} \X tenant_tables
    /\ roles = {[schema |-> "company_acme", id |-> 1, name |-> "Clerk", description |-> "",
                 is_system_role |-> FALSE, company_id |-> 1],
                [schema |-> "public", id |-> 2, name |-> "Cook", description |-> "",
                 is_system_role |-> FALSE, company_id |-> 2]}
    /\ permissions = {[schema |-> "company_acme", id |-> 1, code |-> "permissions_create",
                       company_id |-> 1],
                      [schema |-> "public", id |-> 1, code |-> "roles_delete",
                       company_id |-> 2],
                      [schema |-> "public", id |-> 2, code |-> "roles_read",
                       company_id |-> 3]}
    /\ role_permissions = {[schema |-> "company_acme", role_id |-> 1, permission_id |-> 1]}
    /\ directory = {SeedDir("amy@x.io", "amy", Acme),
                    SeedDir("chef@bistro.io", "chef", Bistro)}
    /\ users = {SeedUser("company_acme", 4, "amy@x.io", "amy", "pw-one", "staff", 1, 1),
                SeedUser("public", 5, "chef@bistro.io", "chef", "pw-chef", "admin", 2, 2)}
    /\ now = 0
    /\ nextId = 3
    /\ resp = NoResponse
    /\ requests = <<>>

PermissionSpec == PermissionInit /\ [][PermissionNext]_vars

-----------------------------------------------------------------------------
(* /users: update and delete (api/v1/endpoints/users.py, crud/user.py)       *)

\* an outcome of CRUDUser.update and CRUDUser.delete: the response, the
\* database and the search path the session is left with
UserDbOut(status, detail, who, db, search_path) ==
    [status |-> status, detail |-> detail, who |-> who, db |-> db,
     search_path |-> search_path]

\* the generic get of users with the session's search path
user_get(sp, id) == {u \in UsersIn(sp) : u.id = id}

\* the constraints of a "user" table on an UPDATE: email and username unique
UserUpdateOk(rows, old, new) ==
    \A u \in rows \ {old} : u.schema = new.schema =>
        u.email # new.email /\ u.username # new.username

\* the constraints of user_directory on an UPDATE
DirectoryUpdateOk(rows, old, new) ==
    \A d \in rows \ {old} : d.email # new.email /\ d.username # new.username

\* CRUDUser.update: a supplied password is stored hashed
hash_password(update_data) ==
    IF Field(update_data, "password") = NoText THEN update_data
    ELSE [f \in (DOMAIN update_data \ {"password"}) \cup {"hashed_password"} |->
             IF f = "hashed_password" THEN get_password_hash(update_data.password)
             ELSE update_data[f]]

\* CRUDUser.update: the directory rows its query matches. db_obj is the
\* instance the generic update has just written, so the query compares with
\* the email and the username the user has after the update
directory_of(db, user) ==
    {d \in db.directory : d.email = user.email \/ d.username = user.username}

\* CRUDUser.update: the outcomes it can have (.first() on the directory query)
crud_user_update(db, sp, db_obj, obj_in) ==
    LET update_data == hash_password(obj_in)
        email_changed == "email" \in DOMAIN update_data /\ update_data.email # db_obj.email
        username_changed ==
            "username" \in DOMAIN update_data /\ update_data.username # db_obj.username
        updated_user == base_update(db_obj, update_data)
        committed == [db EXCEPT !.users = Replace(@, db_obj, updated_user)]
    IN  IF ~UserUpdateOk(db.users, db_obj, updated_user)
        THEN {UserDbOut(500, "Internal Server Error", None, db, sp)}
        ELSE IF ~(email_changed \/ username_changed)
             THEN {UserDbOut(200, "", db_obj.id, committed, sp)}
        ELSE IF directory_of(committed, updated_user) = {}
             THEN {UserDbOut(200, "", db_obj.id, committed, sp)}
        ELSE {LET row == [user_dir EXCEPT
                             !.email = IF email_changed THEN update_data.email ELSE @,
                             !.username = IF username_changed THEN update_data.username
                                          ELSE @]
              IN  \* the user row is committed before the directory row is written
                  IF ~DirectoryUpdateOk(committed.directory, user_dir, row)
                  THEN UserDbOut(500, "Internal Server Error", None, committed, <<"public">>)
                  ELSE UserDbOut(200, "", db_obj.id,
                                 [committed EXCEPT !.directory = Replace(@, user_dir, row)],
                                 sp)
              : user_dir \in directory_of(committed, updated_user)}

\* CRUDUser.delete: the outcomes it can have (.first() on the directory query)
crud_user_delete(db, sp, user_id) ==
    IF user_get(sp, user_id) = {} THEN {UserDbOut(200, "", None, db, sp)}
    ELSE LET user == CHOOSE u \in user_get(sp, user_id) : TRUE
             removed == [db EXCEPT !.users = @ \ {user}]
         IN  IF directory_of(db, user) = {}
             THEN {UserDbOut(200, "", user_id, removed, sp)}
             ELSE {UserDbOut(200, "", user_id,
                             [removed EXCEPT !.directory = @ \ {user_dir}], sp)
                   : user_dir \in directory_of(db, user)}

UserDbReject(status, detail, sp) == UserDbOut(status, detail, None, Db, sp)

\* PUT /users/{user_id}
update_user(bearer, user_id, user_in) ==
    LET auth == check_user_permissions(PathUsers, bearer, <<"users_update">>)
        sp == SessionPath(PathUsers, bearer)
        found == user_get(sp, user_id)
        user == CHOOSE u \in found : TRUE
    IN  IF ~auth.ok THEN {UserDbReject(auth.status, auth.detail, sp)}
        ELSE IF found = {} THEN {UserDbReject(404, "User not found", sp)}
        ELSE IF user.role = "admin" /\ auth.user.role # "admin"
             THEN {UserDbReject(403, "Cannot update user with higher privileges", sp)}
        ELSE IF /\ Field(user_in, "email") # NoText
                /\ user_in.email # user.email
                /\ get_by_email(sp, user_in.email) # {}
             THEN {UserDbReject(400, "Email already in use", sp)}
        ELSE crud_user_update(Db, sp, user, user_in)

\* DELETE /users/{user_id}
delete_user(bearer, user_id) ==
    LET auth == check_user_permissions(PathUsers, bearer, <<"users_delete">>)
        sp == SessionPath(PathUsers, bearer)
        found == user_get(sp, user_id)
        user == CHOOSE u \in found : TRUE
    IN  IF ~auth.ok THEN {UserDbReject(auth.status, auth.detail, sp)}
        ELSE IF user_id = auth.user.id
             THEN {UserDbReject(400, "Cannot delete your own user account", sp)}
        ELSE IF found = {} THEN {UserDbReject(404, "User not found", sp)}
        ELSE IF user.role = "admin" /\ auth.user.role # "admin"
             THEN {UserDbReject(403, "Cannot delete user with higher privileges", sp)}
        ELSE crud_user_delete(Db, sp, user_id)

\* UserUpdate payloads, as obj_in.dict(exclude_unset=True)
UserUpdates ==
    {[email |-> "amy2@x.io", username |-> "amy2"],
     [email |-> "root@acme.io"],
     [email |-> "chef@bistro.io"]}

UserIds == {u.id : u \in users} \cup {UnknownId}

UpdateUser ==
    \E bearer \in Bearers, user_id \in UserIds, user_in \in UserUpdates :
        \E out \in update_user(bearer, user_id, user_in) :
            /\ InstallDb("update_user", out)
            /\ UNCHANGED <<now, nextId>>

DeleteUser ==
    \E bearer \in Bearers, user_id \in UserIds :
        \E out \in delete_user(bearer, user_id) :
            /\ InstallDb("delete_user", out)
            /\ UNCHANGED <<now, nextId>>

UserNext == UpdateUser \/ DeleteUser \/ Login

\* two provisioned companies; the Manager role of the first holds the codes to
\* update and delete users and is the role of its staff user
UserInit ==
    /\ company = {Acme, Bistro}
    /\ schemas = {"company_acme", "company_bistro"}
    /\ tables = {"company_acme", "company_bistro"} \X tenant_tables
    /\ roles = {[schema |-> "company_acme", id |-> 1, name |-> "Manager",
                 description |-> "", is_system_role |-> FALSE, company_id |-> 1]}
    /\ permissions = {[schema |-> "company_acme", id |-> 2, code |-> "users_update",
                       company_id |-> 1],
                      [schema |-> "company_acme", id |-> 3, code |-> "users_delete",
                       company_id |-> 1]}
    /\ role_permissions = {[schema |-> "company_acme", role_id |-> 1, permission_id |-> 2],
                           [schema |-> "company_acme", role_id |-> 1, permission_id |-> 3]}
    /\ directory = {SeedDir("root@acme.io", "root", Acme),
                    SeedDir("amy@x.io", "amy", Acme),
                    SeedDir("chef@bistro.io", "chef", Bistro)}
    /\ users = {SeedUser("company_acme", 3, "root@acme.io", "root", "pw-root", "admin", 1, 1),
                SeedUser("company_acme", 4, "amy@x.io", "amy", "pw-one", "staff", 1, 1),
                SeedUser("company_bistro", 5, "chef@bistro.io", "chef", "pw-chef", "admin", 1, 2)}
    /\ now = 0
    /\ nextId = 6
    /\ resp = NoResponse
    /\ requests = <<>>

UserSpec == UserInit /\ [][UserNext]_vars

-----------------------------------------------------------------------------
(* POST /auth/refresh served by concurrent workers: every request runs on its *)
(* own session, and between the comparison with the stored token and the      *)
(* commit of the new one the handler holds no lock on the user row            *)

MaxRequests == 2

\* the user rows for which the checks of the handler pass with this token
checked_users(token) == {user \in users : issue_tokens(user) \in refresh_token(token)}

\* the rows an UPDATE ... WHERE id = :id of the session's instance reaches
row_of(user) == {u \in users : u.schema = user.schema /\ u.id = user.id}

\* the second half of the handler: the token pair is made from the instance
\* the session has loaded, the refresh token is written to the row and committed
store_tokens(r) ==
    LET new_refresh_token == create_refresh_token(r.user.id, r.user.role, r.user.company_id)
    IN  IF row_of(r.user) = {}
        \* the UPDATE matches no row: StaleDataError, unhandled
        THEN AuthOut(500, "Internal Server Error", NoToken, NoToken, None, users)
        ELSE AuthOut(200, "",
                     create_access_token(r.user.id, r.user.role, r.user.company_id),
                     new_refresh_token, r.user.id,
                     {IF u \in row_of(r.user) THEN [u EXCEPT !.refresh_token = new_refresh_token]
                      ELSE u : u \in users})

\* a request arrives and runs up to the comparison with the stored token: it is
\* rejected there, or it goes on with the user it has loaded
RefreshCheck ==
    /\ Len(requests) < MaxRequests
    /\ \E token \in RefreshInputs :
          \E out \in refresh_token(token) :
              IF out.status = 200
              THEN /\ \E user \in checked_users(token) :
                          /\ out = issue_tokens(user)
                          /\ requests' = Append(requests, [token |-> token, user |-> user,
                                                           pc |-> "checked"])
                   /\ UNCHANGED <<company, schemas, tables, directory, users, roles,
                                  permissions, role_permissions, now, nextId, resp>>
              ELSE Install("refresh", out)

\* a request that passed the checks stores its token pair, commits and answers
RefreshCommit ==
    \E i \in DOMAIN requests :
        /\ requests[i].pc = "checked"
        /\ LET out == store_tokens(requests[i])
           IN  /\ users' = out.users
               /\ resp' = Response("refresh", out.status, out.detail, out.who)
               /\ requests' = [requests EXCEPT ![i].pc =
                                  IF out.status = 200 THEN "answered" ELSE "failed"]
        /\ UNCHANGED <<company, schemas, tables, directory, roles, permissions,
                       role_permissions, now, nextId>>

\* UserUpdate payloads that set is_active
ActiveUpdates == {[is_active |-> FALSE], [is_active |-> TRUE]}

SetActive ==
    \E bearer \in Bearers, user_id \in UserIds, user_in \in ActiveUpdates :
        \E out \in update_user(bearer, user_id, user_in) :
            /\ InstallDb("update_user", out)
            /\ UNCHANGED <<now, nextId>>

SessionNext == Login \/ LoginJson \/ RefreshCheck \/ RefreshCommit \/ SetActive \/ Tick

SessionSpec == CompanyInit /\ [][SessionNext]_vars

-----------------------------------------------------------------------------
(* Properties of /auth and of user creation, checked under Spec *)

\* the users whose credentials the login requests of the model can present
ValidLogin(u, password) ==
    /\ u.is_active
    /\ verify_password(password, u.hashed_password)
    /\ \E d \in directory : d.email = u.email /\ d.company_id = u.company_id

\* the outcome gives u a token pair carrying u's id, role and company id, and
\* stores the refresh token on u's row
IssuedTo(out, u) ==
    /\ out.status = 200
    /\ out.access_token = create_access_token(u.id, u.role, u.company_id)
    /\ out.refresh_token = create_refresh_token(u.id, u.role, u.company_id)
    /\ out.users = Replace(users, u, [u EXCEPT !.refresh_token = out.refresh_token])

\* C1: for an active user with valid credentials, login and login/json both
\* return an access and a refresh token carrying that user's id, role and company
\* id and store the refresh token on the user's row, and a refresh call that
\* presents a stored, unexpired refresh token succeeds.
C1_LoginIssuesTokens ==
    /\ \A u \in users, password \in Passwords :
           ValidLogin(u, password) =>
               /\ \A out \in login(u.email, password) : IssuedTo(out, u)
               /\ \A out \in login_json(u.email, password) : IssuedTo(out, u)
    /\ \A u \in users :
           (u.refresh_token # NoToken /\ decode_ok(u.refresh_token)) =>
               \A out \in refresh_token(u.refresh_token) : IssuedTo(out, u)

\* the part of C1 that is about login/json only
C1_LoginJsonIssuesTokens ==
    \A u \in users, password \in Passwords :
        ValidLogin(u, password) =>
            \A out \in login_json(u.email, password) : IssuedTo(out, u)

\* the token passes the checks made on its claims
ClaimsOk(token) ==
    token.refresh /\ token.sub # None /\ token.company_id # None

\* the company id of the token resolves to a directory entry
DirectoryResolves(token) ==
    \E d \in directory : d.company_id = token.company_id

\* the subject of the token resolves to a User row in the company's schema
UserResolves(token) ==
    \A d \in directory : d.company_id = token.company_id =>
        \E u \in UsersIn(TenantPath(d.schema_name)) : u.id = token.sub

Rejected(out, status) ==
    /\ out.status = status
    /\ out.access_token = NoToken
    /\ out.refresh_token = NoToken
    /\ out.users = users

\* C2: a refresh call fails without issuing tokens and leaves every stored
\* refresh token as it was when the presented token lacks the refresh marker,
\* lacks the subject or the company id, or names a company without a directory
\* entry (Forbidden), and when its subject resolves to no User row (NotFound).
C2_RefreshRejects ==
    \A token \in RefreshInputs :
        decode_ok(token) =>
            /\ (~ClaimsOk(token) \/ ~DirectoryResolves(token)) =>
                   \A out \in refresh_token(token) : Rejected(out, 403)
            /\ (ClaimsOk(token) /\ DirectoryResolves(token) /\ ~UserResolves(token)) =>
                   \A out \in refresh_token(token) : Rejected(out, 404)

\* C2 as the specification words it: Forbidden in each of these cases
C2_RefreshRejectsForbidden ==
    \A token \in RefreshInputs :
        (decode_ok(token) /\
         (~ClaimsOk(token) \/ ~DirectoryResolves(token) \/ ~UserResolves(token))) =>
            \A out \in refresh_token(token) : Rejected(out, 403)

\* a refresh call was rejected for its subject while a user holds a stored token
C2_Witness ==
    /\ resp.op = "refresh"
    /\ resp.status = 404
    /\ \E u \in users : u.refresh_token # NoToken

\* the refresh tokens issued to u that have not expired
TokensOf(u) ==
    {[create_refresh_token(u.id, u.role, u.company_id) EXCEPT !.exp = e] :
        e \in (now + 1)..(now + RefreshLifetime)}

Mismatch(out, us) ==
    /\ out.status = 403
    /\ out.detail = "Invalid refresh token"
    /\ out.access_token = NoToken
    /\ out.refresh_token = NoToken
    /\ out.users = us

\* C3: a successful logout clears the stored refresh token of the caller, a
\* refresh call presenting the token stored before it then fails with the
\* mismatch Forbidden error, and so does every refresh call with a token of a
\* user who has no stored token, until a login stores one.
C3_LogoutRevokes ==
    /\ [](\A u \in users : u.refresh_token = NoToken =>
             \A token \in TokensOf(u) :
                 \A out \in refresh_token(token) : Mismatch(out, users))
    /\ [][(resp'.op = "logout" /\ resp'.status = 200) =>
             \A u \in users : u.id = resp'.who =>
                 /\ users' = Replace(users, u, [u EXCEPT !.refresh_token = NoToken])
                 /\ u.refresh_token # NoToken =>
                        (\A out \in refresh_token(u.refresh_token) :
                             Mismatch(out, users))']_vars

\* a refresh call with a token of a logged-out user was rejected as a mismatch
C3_Witness ==
    /\ resp.op = "refresh"
    /\ resp.status = 403
    /\ resp.detail = "Invalid refresh token"
    /\ \E u \in users : u.id = resp.who /\ u.refresh_token = NoToken

\* C7: a successful user creation adds exactly one directory row, with the
\* email, the username, the caller's company id and that company's schema name,
\* and exactly one User row, whose stored password is not the plaintext;
\* afterwards authenticate returns the user for the email with the plaintext
\* and nothing for the email with another password.
C7_CreateUser ==
    [][(resp'.op = "create_user" /\ resp'.status = 201) =>
          \A bearer \in Bearers, user_in \in Payloads :
              \A out \in {create_user(bearer, user_in)} :
                  (out.status = 201 /\ users' = out.users /\ directory' = out.directory) =>
                      \E u \in users', d \in directory', c \in company :
                          /\ c.id = get_current_user(PathUsers, bearer).user.company_id
                          /\ u \notin users /\ users' = users \cup {u}
                          /\ d \notin directory /\ directory' = directory \cup {d}
                          /\ d = [email |-> user_in.email, username |-> user_in.username,
                                  company_id |-> c.id, schema_name |-> c.schema_name]
                          /\ u.email = user_in.email
                          /\ u.hashed_password # Plain(user_in.password)
                          /\ (authenticate(TenantPath(c.schema_name), user_in.email,
                                           user_in.password) = {u})'
                          /\ \A other \in Passwords \ {user_in.password} :
                                 (authenticate(TenantPath(c.schema_name), user_in.email,
                                               other) = {})']_vars

\* a user was created and has its directory row
C7_Witness ==
    /\ resp.op = "create_user"
    /\ resp.status = 201
    /\ \E u \in users : u.id = resp.who /\ u.id >= 6
          /\ \E d \in directory : d.email = u.email /\ d.username = u.username

-----------------------------------------------------------------------------
(* Properties of /companies, checked under CompanySpec *)

\* the callers the superuser check is for: coarse role ADMIN, or "all" among
\* the permissions
IsSuperuser(user, sp) == user.role = "admin" \/ "all" \in get_permissions(user, sp)

SuperuserDenied(out) ==
    /\ out.status = 403
    /\ out.detail = "Superuser privileges required for company management"

\* what the /companies endpoints can answer to the requests of this caller
CompanyAnswers(bearer) ==
    {get_companies(bearer, active_only) : active_only \in BOOLEAN}
    \cup UNION {create_company(bearer, company_in) : company_in \in CompanyCreates}
    \cup {get_company(bearer, id) : id \in CompanyIds}
    \cup {update_company(bearer, id, company_in) :
             id \in CompanyIds, company_in \in CompanyUpdates}
    \cup {delete_company(bearer, id) : id \in CompanyIds}
    \cup {drop_company_schema(bearer, id, confirm) : id \in CompanyIds, confirm \in BOOLEAN}

\* C4: every /companies endpoint lets an authenticated caller pass the
\* superuser check when the caller's coarse role is ADMIN or the caller's
\* permissions contain "all", and answers every other caller Forbidden.
C4_SuperuserCheck ==
    \A bearer \in Bearers :
        get_current_user(PathCompanies, bearer).ok =>
            \A out \in CompanyAnswers(bearer) :
                SuperuserDenied(out) <=>
                    ~IsSuperuser(get_current_user(PathCompanies, bearer).user,
                                 SessionPath(PathCompanies, bearer))

\* C5: for a superuser, creating a company whose name exists fails with 400
\* and adds nothing; creating one with a new name adds exactly one company row,
\* its schema and the four tenant tables in it.
C5_CreateCompany ==
    \A bearer \in Bearers, company_in \in CompanyCreates :
        (/\ get_current_user(PathCompanies, bearer).ok
         /\ IsSuperuser(get_current_user(PathCompanies, bearer).user,
                        SessionPath(PathCompanies, bearer))) =>
            \A out \in create_company(bearer, company_in) :
                IF \E c \in company : c.name = company_in.name
                THEN out.status = 400 /\ out.db = Db
                ELSE /\ out.status = 200
                     /\ \E row \in out.db.company :
                            /\ row \notin company
                            /\ row.name = company_in.name
                            /\ out.db.company = company \cup {row}
                            /\ out.db.schemas = schemas \cup {row.schema_name}
                            /\ out.db.tables =
                                   tables \cup ({row.schema_name} \X tenant_tables)

\* C6: no step changes the schema_name of a company, and a CRUDCompany.update,
\* also one whose update data carry another schema_name, applies the other
\* fields it was given (the slug slugified) and leaves the rest of the row.
C6_SchemaNameImmutable ==
    [][/\ \A c \in company : \A c2 \in company' :
              c2.id = c.id => c2.schema_name = c.schema_name
       /\ (resp'.op = "crud_company_update" /\ resp'.status = 200) =>
              \A db_obj \in company, obj_in \in CompanyUpdateDicts :
                  \A out \in {crud_company_update(Db, db_obj, obj_in)} :
                      (out.status = 200 /\ company' = out.db.company) =>
                          \E row \in company' :
                              /\ company' = Replace(company, db_obj, row)
                              /\ row.id = db_obj.id
                              /\ row.schema_name = db_obj.schema_name
                              /\ row.name = IF "name" \in DOMAIN obj_in
                                            THEN obj_in.name ELSE db_obj.name
                              /\ row.slug = IF "slug" \in DOMAIN obj_in
                                            THEN slugify(obj_in.slug) ELSE db_obj.slug
                              /\ row.is_active = db_obj.is_active]_vars

\* an update whose data named another schema_name renamed the first company
C6_Witness ==
    /\ resp.op = "crud_company_update"
    /\ resp.status = 200
    /\ \E c \in company :
          c.id = resp.who /\ c.name = "Renamed" /\ c.schema_name = "company_acme"

-----------------------------------------------------------------------------
(* Properties of /roles and /permissions, checked under RoleSpec *)

\* the caller holds the permission and the role is one of the caller's company
MayActOnRole(bearer, required, role) ==
    /\ check_user_permissions(PathRoles, bearer, <<required>>).ok
    /\ role \in RolesIn(SessionPath(PathRoles, bearer))
    /\ role.company_id = get_current_user(PathRoles, bearer).user.company_id

\* the request is refused and changes nothing; a caller who may act gets 400
Refused(out, may_act) ==
    /\ out.db = Db
    /\ out.status \notin {200, 201}
    /\ may_act => out.status = 400

\* C8: for a system role every update, every change of its permissions and
\* every delete is refused and leaves the database as it was, with 400 for a
\* caller who holds the permission in the role's company; CRUDRole refuses the
\* three operations on it as well.
C8_SystemRoleProtected ==
    \A role \in roles :
        role.is_system_role =>
            /\ \A bearer \in Bearers :
                   /\ \A role_in \in RoleUpdates :
                          Refused(update_role(bearer, role.id, role_in),
                                  MayActOnRole(bearer, "roles_update", role))
                   /\ \A add_ids \in IdLists, remove_ids \in IdLists :
                          Refused(update_role_permissions(bearer, role.id, add_ids, remove_ids),
                                  MayActOnRole(bearer, "roles_manage_permissions", role))
                   /\ Refused(delete_role(bearer, role.id),
                              MayActOnRole(bearer, "roles_delete", role))
            /\ \A role_in \in RoleUpdates :
                   Refused(crud_role_update(Db, <<role.schema>>, role, role_in), TRUE)
            /\ \A add_ids \in IdLists, remove_ids \in IdLists :
                   Refused(crud_role_update_permissions(Db, <<role.schema>>, role,
                                                        add_ids, remove_ids), TRUE)
            /\ Refused(crud_role_remove(Db, <<role.schema>>, role.id), TRUE)

\* the delete of a system role was refused by CRUDRole.remove
C8_Witness ==
    /\ resp.op = "delete_role"
    /\ resp.status = 400
    /\ resp.detail = "System roles cannot be deleted"
    /\ \E role \in roles : role.is_system_role

\* the permission ids attached to the role in a database
Attached(db, role) ==
    {rp.permission_id : rp \in {x \in db.role_permissions :
        x.schema = role.schema /\ x.role_id = role.id}}

\* the ids of a list that exist in the role's table set and company
ValidIds(ids, role) ==
    {i \in ids : \E q \in permissions :
        q.schema = role.schema /\ q.id = i /\ q.company_id = role.company_id}

\* the rows of the association table that belong to other roles
OtherRows(db, role) ==
    {x \in db.role_permissions : ~(x.schema = role.schema /\ x.role_id = role.id)}

\* C9: a successful update_permissions on a role that is no system role
\* attaches no id of another company and no id that does not exist, ignores
\* the removal of ids that are not attached, applies every valid add and every
\* valid remove of the call, and changes nothing else in the database.
C9_UpdatePermissions ==
    \A bearer \in Bearers, role \in roles, add_ids \in IdLists, remove_ids \in IdLists :
        \A out \in {update_role_permissions(bearer, role.id, add_ids, remove_ids)} :
            (out.status = 200 /\ ~role.is_system_role) =>
                /\ Attached(out.db, role) =
                       (Attached(Db, role) \cup ValidIds(add_ids, role))
                           \ ValidIds(remove_ids, role)
                /\ \A i \in Attached(out.db, role) \ Attached(Db, role) :
                       \E q \in permissions : q.id = i /\ q.company_id = role.company_id
                /\ OtherRows(out.db, role) = OtherRows(Db, role)
                /\ [out.db EXCEPT !.role_permissions = {}] =
                       [Db EXCEPT !.role_permissions = {}]

\* permissions of a role were updated while a permission of another company
\* sits in the same table
C9_Witness ==
    /\ resp.op = "update_role_permissions"
    /\ resp.status = 200
    /\ \E role \in roles :
          /\ role.id = resp.who
          /\ ~role.is_system_role
          /\ Attached(Db, role) # {}
          /\ \E q \in permissions :
                 q.schema = role.schema /\ q.company_id # role.company_id

\* the caller holds the permission and the permission is one of the caller's
\* company
MayActOnPermission(bearer, required, permission) ==
    /\ check_user_permissions(PathPermissions, bearer, <<required>>).ok
    /\ permission \in PermissionsIn(SessionPath(PathPermissions, bearer))
    /\ permission.company_id = get_current_user(PathPermissions, bearer).user.company_id

\* C10: the delete of a permission that is attached to a role, and the delete
\* of a role that is assigned to a user, are refused and leave the database as
\* it was, with 400 for a caller who holds the permission in that company.
C10_DeleteInUse ==
    \A bearer \in Bearers :
        /\ \A q \in permissions :
               (\E rp \in role_permissions :
                    rp.schema = q.schema /\ rp.permission_id = q.id) =>
                   Refused(delete_permission(bearer, q.id),
                           MayActOnPermission(bearer, "permissions_delete", q))
        /\ \A role \in roles :
               (\E u \in users : u.schema = role.schema /\ u.role_id = role.id) =>
                   Refused(delete_role(bearer, role.id),
                           MayActOnRole(bearer, "roles_delete", role))

\* the delete of an attached permission was refused
C10_Witness ==
    /\ resp.op = "delete_permission"
    /\ resp.status = 400
    /\ resp.detail = "Cannot delete a permission that is assigned to roles"
    /\ role_permissions # {}

-----------------------------------------------------------------------------
(* Properties of the request pipeline: the tenant middleware, the session,   *)
(* current-user resolution and the permission check                          *)

\* the required-permission lists of the check
RequiredLists ==
    {<<>>,
     <<"roles_create">>,
     <<"roles_manage_permissions">>,
     <<"roles_delete", "roles_manage_permissions">>,
     <<"roles_manage_permissions", "roles_delete", "roles_create">>}

\* the permission codes attached to the Role the user is assigned to
AssignedCodes(user) ==
    {q.code : q \in {x \in permissions :
        /\ x.schema = user.schema
        /\ \E r \in roles : r.schema = user.schema /\ r.id = user.role_id
        /\ \E rp \in role_permissions :
               /\ rp.schema = user.schema
               /\ rp.role_id = user.role_id
               /\ rp.permission_id = x.id}}

\* the positions of the required codes the user does not hold
MissingAt(user, required) ==
    {i \in 1..Len(required) : required[i] \notin AssignedCodes(user)}

\* C11: the permission check passes for every ADMIN user whatever the required
\* list is; for any other user it passes exactly when every required code is
\* among the codes attached to the user's Role, and otherwise fails with 403
\* naming the first required code that is missing.
C11_PermissionCheck ==
    \A bearer \in Bearers, required \in RequiredLists :
        LET auth == get_current_user(PathRoles, bearer)
            out == check_user_permissions(PathRoles, bearer, required)
            missing == MissingAt(auth.user, required)
        IN  auth.ok =>
                IF auth.user.role = "admin" \/ missing = {}
                THEN out.ok /\ out.user = auth.user
                ELSE /\ ~out.ok
                     /\ out.status = 403
                     /\ out.detail = "Not enough permissions. Missing"
                     /\ \E i \in missing :
                            /\ \A j \in missing : i <= j
                            /\ out.missing = required[i]

\* a user who is no ADMIN was refused for a missing code while holding another
C11_Witness ==
    /\ resp.op = "create_role"
    /\ resp.status = 403
    /\ resp.detail = "Not enough permissions. Missing"
    /\ \E u \in users :
          u.role # "admin" /\ u.is_active /\ AssignedCodes(u) # {}

\* the paths the middleware does not skip
TenantPaths == {PathLogout, PathUsers, PathRoles, PathPermissions, PathCompanies}

\* the request gives the middleware no company: no bearer token, a token that
\* fails to decode, a token without the company_id claim
NoTenant(bearer) ==
    bearer.kind = "none" \/ ~decode_ok(bearer) \/ bearer.company_id = None

\* C12: without a bearer token, with a token that fails to decode or with a
\* token that has no company_id claim, the middleware sets neither the company
\* id nor the schema name on the request state, and the session of the request
\* has the shared schema only as its search path.
C12_NoTenantContext ==
    \A path \in TenantPaths, bearer \in Bearers :
        NoTenant(bearer) =>
            /\ dispatch(path, bearer) = Unset
            /\ ~dispatch(path, bearer).has_schema
            /\ dispatch(path, bearer).company_id = None
            /\ SessionPath(path, bearer) = <<"public">>

\* a request with a token that does not decode was served after time passed,
\* while expired tokens and tokens without company id are among the bearers
C12_Witness ==
    /\ resp.op = "logout"
    /\ resp.status = 403
    /\ now > 0
    /\ \E bearer \in Bearers : bearer.kind = "jwt" /\ ~decode_ok(bearer)
    /\ \E bearer \in Bearers : decode_ok(bearer) /\ bearer.company_id = None

\* the User rows the subject of the token matches in the selected schema
SubjectRows(path, bearer) ==
    {u \in users : /\ u.schema = TableHome(SessionPath(path, bearer), "user")
                   /\ u.id = bearer.sub}

\* C14: current-user resolution rejects an expired or malformed token with 401
\* (Unauthenticated), a valid token whose subject matches no User row of the
\* selected schema with 404, a valid token of an inactive user with the 400
\* "Inactive user" error, and returns the user in every other case.
C14_CurrentUser ==
    \A path \in TenantPaths, bearer \in Bearers :
        bearer.kind # "none" =>
            LET auth == get_current_user(path, bearer)
                found == SubjectRows(path, bearer)
            IN  IF ~decode_ok(bearer) THEN ~auth.ok /\ auth.status = 401
                ELSE IF found = {} THEN ~auth.ok /\ auth.status = 404
                ELSE IF \E u \in found : ~u.is_active
                     THEN ~auth.ok /\ auth.status = 400 /\ auth.detail = "Inactive user"
                ELSE auth.ok /\ auth.user \in found

\* the request paths and request states get_db can be handed
SessionPaths == TenantPaths \cup {PathLogin, PathLoginJson, PathRefresh}

RequestStates ==
    {Unset}
    \cup {[has_schema |-> TRUE, schema_name |-> c.schema_name, company_id |-> c.id] :
             c \in company}
    \cup {[has_schema |-> TRUE, schema_name |-> DEFAULT_SCHEMA,
           company_id |-> UnknownCompany]}

\* the path ends in /login, /login/json or /refresh
IsAuthRoute(path) ==
    \/ path[Len(path)] \in {"login", "refresh"}
    \/ (Len(path) >= 2 /\ path[Len(path) - 1] = "login" /\ path[Len(path)] = "json")

\* C18: the search path of a session is the shared schema only when the path
\* ends in /login, /login/json or /refresh, also when the request state holds a
\* schema name; otherwise the schema of the request state followed by the
\* shared schema when the state holds one; otherwise the shared schema only.
C18_SearchPathPriority ==
    \A path \in SessionPaths, state \in RequestStates :
        /\ IsAuthRoute(path) => get_db(path, state) = <<"public">>
        /\ (~IsAuthRoute(path) /\ state.has_schema) =>
               get_db(path, state) = <<state.schema_name, "public">>
        /\ (~IsAuthRoute(path) /\ ~state.has_schema) =>
               get_db(path, state) = <<"public">>

\* a login was served on a session of the shared schema while a request state
\* with a tenant schema exists, and a tenant request was served on its schema
C18_Witness ==
    /\ resp.op = "login_json"
    /\ resp.status = 200
    /\ \E state \in RequestStates :
          state.has_schema /\ get_db(PathLoginJson, state) = <<"public">>
    /\ \E u \in users :
          /\ u.id = resp.who
          /\ SessionPath(PathUsers, u.refresh_token) = <<u.schema, "public">>

\* the outcome is a failure with this status and detail that issues no token
\* and leaves every user row as it was
Failed(out, status, detail) == Rejected(out, status) /\ out.detail = detail

\* the failures of a login whose identifier matches the directory rows dirs and,
\* in the schema of the directory row d, the User rows found[d]
LoginFailures(outs, dirs, found(_), password) ==
    /\ dirs = {} => \A out \in outs : Failed(out, 401, "User not found")
    /\ (dirs # {} /\ \A d \in dirs : \A u \in found(d) :
                         ~verify_password(password, u.hashed_password)) =>
           \A out \in outs : Failed(out, 401, "Incorrect email or password")
    /\ (dirs # {} /\ \A d \in dirs :
                         /\ found(d) # {}
                         /\ \A u \in found(d) :
                                /\ verify_password(password, u.hashed_password)
                                /\ ~u.is_active) =>
           \A out \in outs : Failed(out, 400, "Inactive user")
    /\ \A out \in outs : out.status # 200 =>
           /\ out.access_token = NoToken
           /\ out.refresh_token = NoToken
           /\ out.users = users

\* C15: a login (form or JSON) fails with 401 "User not found" when the
\* identifier has no directory row, with 401 "Incorrect email or password"
\* when the tenant schema holds no matching User row or the password does not
\* verify, and with 400 "Inactive user" when the user is inactive; a failing
\* login issues no token and leaves every stored refresh token as it was.
C15_LoginFailures ==
    \A identifier \in Identifiers, password \in Passwords :
        /\ LET Found(d) == {u \in UsersIn(TenantPath(d.schema_name)) :
                               u.email = identifier \/ u.username = identifier}
           IN  LoginFailures(login(identifier, password),
                             {d \in directory :
                                 d.email = identifier \/ d.username = identifier},
                             Found, password)
        /\ LET Found(d) == {u \in UsersIn(TenantPath(d.schema_name)) :
                               u.email = identifier}
           IN  LoginFailures(login_json(identifier, password),
                             {d \in directory : d.email = identifier},
                             Found, password)

-----------------------------------------------------------------------------
(* Properties of the company delete and of drop-schema, under CompanySpec *)

\* the rows of a database that live in tenant schemas
TenantRows(db) ==
    [users |-> {r \in db.users : r.schema # "public"},
     roles |-> {r \in db.roles : r.schema # "public"},
     permissions |-> {r \in db.permissions : r.schema # "public"},
     role_permissions |-> {r \in db.role_permissions : r.schema # "public"}]

\* what a delete of the company can answer: CRUDCompany.remove and the endpoint
DeleteAnswers(id) ==
    {crud_company_remove(Db, id)} \cup {delete_company(bearer, id) : bearer \in Bearers}

\* C17: a company delete that succeeds removes the Company row and, with it,
\* the directory rows that refer to the company (ON DELETE CASCADE), and nothing
\* else: the schemas, the tables of the tenant schemas and the rows in them are
\* the same after it; a delete that does not succeed changes nothing.
C17_DeleteCompany ==
    \A id \in CompanyIds :
        \A out \in DeleteAnswers(id) :
            /\ out.db.schemas = schemas
            /\ out.db.tables = tables
            /\ TenantRows(out.db) = TenantRows(Db)
            /\ IF out.status = 200 /\ out.who = id
               THEN /\ out.db.company = {c \in company : c.id # id}
                    /\ out.db.directory = {d \in directory : d.company_id # id}
               ELSE out.db = Db

\* C17 as the specification words it: only the Company row is removed
C17_OnlyCompanyRow ==
    \A id \in CompanyIds :
        \A out \in DeleteAnswers(id) :
            out.db = [Db EXCEPT !.company = {c \in @ : c.id # out.who}]

\* the first company was deleted and its schema and tables are still there
C17_Witness ==
    /\ resp.op = "crud_company_remove"
    /\ resp.status = 200
    /\ resp.who = Acme.id
    /\ \A c \in company : c.id # Acme.id
    /\ Acme.schema_name \in schemas
    /\ \A t \in tenant_tables : <<Acme.schema_name, t>> \in tables
    /\ \E u \in users : u.schema = Acme.schema_name

\* C13: for a superuser, drop-schema without confirm=true fails with 400 and
\* changes no schema and no row; with confirm=true on an existing company it
\* removes the company's schema with the tables and rows in it.
C13_DropSchema ==
    \A bearer \in Bearers, id \in CompanyIds :
        (/\ get_current_user(PathCompanies, bearer).ok
         /\ IsSuperuser(get_current_user(PathCompanies, bearer).user,
                        SessionPath(PathCompanies, bearer))) =>
            /\ LET out == drop_company_schema(bearer, id, FALSE)
               IN  out.status = 400 /\ out.db = Db
            /\ \A c \in company : c.id = id =>
                   LET out == drop_company_schema(bearer, id, TRUE)
                   IN  /\ out.status = 200
                       /\ c.schema_name \notin out.db.schemas
                       /\ \A t \in out.db.tables : t[1] # c.schema_name
                       /\ \A r \in out.db.users \cup out.db.roles : r.schema # c.schema_name
                       /\ out.db.company = company

-----------------------------------------------------------------------------
(* Properties of the update and the delete of users, checked under UserSpec *)

\* the caller is no ADMIN and the target is
HigherPrivileges(caller, target) == target.role = "admin" /\ caller.role # "admin"

\* the request is rejected with this status and changes no row
RejectedWith(outs, status) ==
    \A out \in outs : out.status = status /\ out.db = Db

\* C16: an update or a delete of an ADMIN user by a caller who is no ADMIN is
\* rejected with 403, the delete of the caller's own account with 400, an
\* update to an email that another user has with 400; in each case no User row
\* and no directory row changes.
C16_UserRejections ==
    \A bearer \in Bearers :
        LET sp == SessionPath(PathUsers, bearer)
            may_update == check_user_permissions(PathUsers, bearer, <<"users_update">>)
            may_delete == check_user_permissions(PathUsers, bearer, <<"users_delete">>)
        IN  \A target \in UsersIn(sp) :
                /\ (may_update.ok /\ HigherPrivileges(may_update.user, target)) =>
                       \A user_in \in UserUpdates :
                           RejectedWith(update_user(bearer, target.id, user_in), 403)
                /\ (may_delete.ok /\ HigherPrivileges(may_delete.user, target)) =>
                       RejectedWith(delete_user(bearer, target.id), 403)
                /\ (may_delete.ok /\ target.id = may_delete.user.id) =>
                       RejectedWith(delete_user(bearer, target.id), 400)
                /\ (may_update.ok /\ ~HigherPrivileges(may_update.user, target)) =>
                       \A user_in \in UserUpdates :
                           (/\ "email" \in DOMAIN user_in
                            /\ user_in.email # target.email
                            /\ \E other \in users \ {target} : other.email = user_in.email) =>
                               RejectedWith(update_user(bearer, target.id, user_in), 400)

\* the directory row of a user: the one with the user's email and username
OwnDirectoryRows(u) ==
    {d \in directory :
        d.email = u.email /\ d.username = u.username /\ d.company_id = u.company_id}

\* C19: after a user update that changes the email, the username or both, the
\* directory row of that user holds the new email and the new username with
\* the company and the schema it had, no other directory row has changed, and
\* the search path of the session is the one it had before the call.
C19_DirectoryFollowsUpdate ==
    \A bearer \in Bearers, user_in \in UserUpdates :
        \A target \in UsersIn(SessionPath(PathUsers, bearer)) :
            \A out \in update_user(bearer, target.id, user_in) :
                LET new_email == IF "email" \in DOMAIN user_in THEN user_in.email
                                 ELSE target.email
                    new_username == IF "username" \in DOMAIN user_in THEN user_in.username
                                    ELSE target.username
                IN  (/\ out.status = 200
                     /\ new_email # target.email \/ new_username # target.username
                     /\ OwnDirectoryRows(target) # {}) =>
                        /\ \E d \in OwnDirectoryRows(target) :
                               out.db.directory =
                                   Replace(directory, d,
                                           [d EXCEPT !.email = new_email,
                                                     !.username = new_username])
                        /\ out.search_path = SessionPath(PathUsers, bearer)

\* C20: a delete of a user removes the User row of that user and the directory
\* row of that user and no other row of the two tables, and afterwards every
\* login with the email or the username of the deleted user fails with 401
\* "User not found".
C20_DeleteUser ==
    [][(resp'.op = "delete_user" /\ resp'.status = 200) =>
          \A u \in users :
              (u.id = resp'.who /\ u \notin users') =>
                  /\ users' = users \ {u}
                  /\ \E d \in directory :
                         /\ d.email = u.email
                         /\ d.username = u.username
                         /\ directory' = directory \ {d}
                  /\ (\A identifier \in {u.email, u.username}, password \in Passwords :
                          \A out \in login(identifier, password)
                                     \cup login_json(identifier, password) :
                              Failed(out, 401, "User not found"))']_vars

-----------------------------------------------------------------------------
(* Properties of POST /permissions/initialize, checked under PermissionSpec *)

\* the codes of the registry
RegistryCodes == {get_permission_definitions[i] : i \in DOMAIN get_permission_definitions}

\* the codes the company has a Permission row for
CodesOf(rows, company_id) == {q.code : q \in {x \in rows : x.company_id = company_id}}

\* C21: POST /permissions/initialize creates, for the caller's company, one
\* Permission row for every code of the registry the company has no row for
\* and none for a code it has, and returns the number of rows it created; the
\* same call made again right after it creates nothing and returns 0; and no
\* (code, company_id) pair is on two Permission rows.
C21_InitializePermissions ==
    /\ \A bearer \in Bearers :
           \A out \in {initialize_permissions(bearer)} :
               LET caller == check_user_permissions(PathPermissions, bearer,
                                                    <<"permissions_create">>).user
                   missing == RegistryCodes \ CodesOf(permissions, caller.company_id)
                   new == out.db.permissions \ permissions
               IN  IF out.status # 200 THEN out.db = Db
                   ELSE /\ permissions \subseteq out.db.permissions
                        /\ \A q \in new : q.company_id = caller.company_id
                        /\ {q.code : q \in new} = missing
                        /\ Cardinality(new) = Cardinality(missing)
                        /\ out.detail = initialized(Cardinality(missing))
                        \* the call after a successful call of the same caller
                        /\ (/\ resp.op = "initialize_permissions"
                            /\ resp.status = 200
                            /\ resp.who = out.who) =>
                               out.detail = initialized(0) /\ out.db = Db
    /\ \A q1, q2 \in permissions :
           (q1.code = q2.code /\ q1.company_id = q2.company_id) => q1 = q2

\* a second call answered 0: the caller's company has every code of the registry
C21_Witness ==
    /\ resp.op = "initialize_permissions"
    /\ resp.status = 200
    /\ resp.detail = initialized(0)
    /\ \E c \in company : RegistryCodes \subseteq CodesOf(permissions, c.id)

-----------------------------------------------------------------------------
(* Properties of the provisioning and of the registry, under CompanySpec *)

\* the company row a create adds: the one with the fresh id
CreatedRow(out) == CHOOSE row \in out.db.company : row.id = out.who

\* C22: a CRUDCompany.create whose row the registry accepts returns the company
\* (no error) and leaves the committed row in the registry also when the
\* creation of the schema or of the tenant tables fails: among its outcomes is
\* one where the row's schema is missing and one where the schema is there
\* without the tenant tables.
C22_ProvisioningFailure ==
    \A obj_in \in CompanyCreates :
        LET outs == crud_company_create(Db, obj_in)
        IN  (\E out \in outs : out.status = 200) =>
                /\ \A out \in outs :
                       /\ out.status = 200
                       /\ \E row \in out.db.company :
                              /\ row.id = out.who
                              /\ row.name = obj_in.name
                              /\ out.db.company = company \cup {row}
                       /\ schemas \subseteq out.db.schemas
                       /\ tables \subseteq out.db.tables
                /\ \A schema_name \in {CreatedRow(out).schema_name : out \in outs} :
                       /\ schema_name \notin schemas =>
                              \E out \in outs : schema_name \notin out.db.schemas
                       /\ (\A t \in tenant_tables : <<schema_name, t>> \notin tables) =>
                              \E out \in outs :
                                  /\ schema_name \in out.db.schemas
                                  /\ \A t \in tenant_tables :
                                         <<schema_name, t>> \notin out.db.tables

\* a create was answered with the company and the company's schema is missing
C22_Witness ==
    /\ resp.op = "crud_company_create"
    /\ resp.status = 200
    /\ \E c \in company : c.id = resp.who /\ c.schema_name \notin schemas

\* the schemas that the schema_name of a Company row names
Referenced(db) == {schema \in db.schemas : \E c \in db.company : c.schema_name = schema}

\* the rows of a table that are in the shared schema or in one of the schemas
RowsWithin(rows, kept) == {r \in rows : r.schema = "public" \/ r.schema \in kept}

-----------------------------------------------------------------------------
(* Properties of the directory and of the coarse role *)

\* the User rows a directory row stands for, and the directory rows of a User row
UsersOf(d) ==
    {u \in users : u.schema = d.schema_name /\ u.email = d.email /\ u.username = d.username}

DirectoryOf(u) ==
    {d \in directory :
        /\ d.email = u.email /\ d.username = u.username
        /\ d.company_id = u.company_id /\ d.schema_name = u.schema}

\* C24: after every user create, update or delete, directory rows and tenant
\* User rows correspond one to one: every directory row has a User row with its
\* email and username in the schema it names, and every tenant User row has
\* exactly one directory row naming its company and its schema.
C24_DirectoryCorrespondence ==
    /\ \A d \in directory : UsersOf(d) # {}
    /\ \A u \in users : u.schema # "public" => Cardinality(DirectoryOf(u)) = 1

\* the users whose coarse role is ADMIN
Admins(rows) == {<<u.schema, u.id>> : u \in {x \in rows : x.role = "admin"}}

\* a UserUpdate payload that sets the coarse role
RoleChanges == {[role |-> "admin"]}

\* C25: no user create and no user update made by a caller whose coarse role
\* is not ADMIN leaves a user with the coarse role ADMIN who did not have it
\* before the request.
C25_NoEscalation ==
    \A bearer \in Bearers :
        \A auth \in {get_current_user(PathUsers, bearer)} :
            (auth.ok /\ auth.user.role # "admin") =>
                /\ \A user_in \in Payloads :
                       Admins(create_user(bearer, user_in).users) \subseteq Admins(users)
                /\ \A user_id \in UserIds, user_in \in RoleChanges :
                       \A out \in update_user(bearer, user_id, user_in) :
                           Admins(out.db.users) \subseteq Admins(users)

\* UserUpdate payloads that name the email or the username of another user
CrossUpdates ==
    UserUpdates \cup {[email |-> "amy2@x.io", username |-> "chef"],
                      [username |-> "chef"]}

\* C26: a user update issued within one company changes and removes no
\* directory row of a user of another company, whatever email and username it
\* supplies.
C26_ForeignDirectoryRows ==
    \A bearer \in Bearers, user_in \in CrossUpdates :
        \A target \in UsersIn(SessionPath(PathUsers, bearer)) :
            \A out \in update_user(bearer, target.id, user_in) :
                \A d \in directory :
                    d.company_id # target.company_id => d \in out.db.directory

-----------------------------------------------------------------------------
(* Properties of the refresh-token rotation and of deactivation, under        *)
(* SessionSpec                                                                *)

Answered(i) == requests[i].pc = "answered"

\* C27: a refresh token is exchanged at most once, however the /auth/refresh
\* requests that present it interleave (of those that present the same token at
\* most one is answered with a token pair), and once a request that presented it
\* was answered the token is not accepted by /auth/refresh any more.
C27_RefreshExchangedOnce ==
    /\ \A i, j \in DOMAIN requests :
          (i # j /\ requests[i].token = requests[j].token)
              => ~(Answered(i) /\ Answered(j))
    /\ \A i \in DOMAIN requests :
          Answered(i) => \A out \in refresh_token(requests[i].token) : out.status # 200

\* two requests that presented one token, issued before the present tick, were
\* both answered with a token pair
C27_Race ==
    \E i, j \in DOMAIN requests :
        /\ i # j /\ requests[i].token = requests[j].token
        /\ Answered(i) /\ Answered(j)
        /\ requests[i].token.exp < now + RefreshLifetime

\* the token-issuing requests that are answered with a token pair for the user
LoginsOf(u) ==
    {out \in UNION {login(username, password) \cup login_json(username, password) :
                        username \in Identifiers, password \in Passwords} :
        out.status = 200 /\ out.who = u.id}

RefreshesOf(u) ==
    {out \in UNION {refresh_token(token) : token \in RefreshInputs} :
        out.status = 200 /\ out.who = u.id}

\* C28: while a user's is_active is false, no login, login/json or refresh
\* request is answered with a token pair for that user, also when the user still
\* holds a stored refresh token.
C28_InactiveUserLockedOut ==
    \A u \in users : ~u.is_active => LoginsOf(u) = {} /\ RefreshesOf(u) = {}

\* the part of C28 that is about the two login endpoints
C28_InactiveLogin ==
    \A u \in users : ~u.is_active => LoginsOf(u) = {}

-----------------------------------------------------------------------------
(* Properties of the columns of the company table, under CompanySpec *)

C30_SchemaNameCharacters ==
    \A c \in company :
        /\ CharClasses(c.schema_name) \subseteq {"lower", "digit", "underscore"}
        /\ TextLen(c.schema_name) <= 63

\* the part of C30 that is about a schema_name the caller supplied
C30_SuppliedSchemaName ==
    \A obj_in \in CompanyCreates :
        obj_in.schema_name # NoText =>
            \A out \in crud_company_create(Db, obj_in) :
                \A c \in out.db.company \ company :
                    /\ c.schema_name = obj_in.schema_name
                    /\ CharClasses(c.schema_name) \subseteq {"lower", "digit", "underscore"}
                    /\ TextLen(c.schema_name) <= 63

====
